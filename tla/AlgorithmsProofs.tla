--------------------------- MODULE AlgorithmsProofs ---------------------------
(***************************************************************************)
(* What the other sequential computations give, for every input: no bound  *)
(* on the number of probes, hosts, ports, parts, arguments, layers or      *)
(* settings.  As in WireProofs, the work is in the loops: LoopRuns is      *)
(* about the chase of aliases, UnitsRead about the arguments of a scan.    *)
(***************************************************************************)
EXTENDS WireProofs

------------------------------------------------------------------------------
(* Wildcards. *)

LEMMA HeardIsSound ==
  ASSUME NEW probes, NEW host
  PROVE  LET heard == {i \in DOMAIN probes : ~probes[i].err} IN
         /\ Is(DetectWildcard(probes), host) =>
              host # {} /\ \A ip \in host : \E i \in heard : ip \in AddressesOf(probes[i])
         /\ host # {} /\ heard # {} /\ (\A i \in heard : AddressesOf(probes[i]) = host)
              => Is(DetectWildcard(probes), host)
  <1> DEFINE heard == {i \in DOMAIN probes : ~probes[i].err}
             ips == UNION {AddressesOf(probes[i]) : i \in DOMAIN probes}
  <1>1. Is(DetectWildcard(probes), host) <=> ips # {} /\ host # {} /\ host \subseteq ips
    BY DEF Is, DetectWildcard
  <1>2. \A i \in DOMAIN probes : i \notin heard => AddressesOf(probes[i]) = {}
    BY DEF AddressesOf
  <1>3. \A ip : ip \in ips <=> \E i \in heard : ip \in AddressesOf(probes[i])
    BY <1>2
  <1> HIDE DEF ips
  <1>4. ASSUME host # {}, heard # {}, \A i \in heard : AddressesOf(probes[i]) = host
        PROVE  ips # {} /\ host \subseteq ips
    BY <1>3, <1>4
  <1> QED
    BY <1>1, <1>3, <1>4

\* Only what every random name was answered with is noise, and what is, is
\* recognised, however many lookups fail (wildcard.go:17-22).
THEOREM WildcardsAreSound == Spec => []WildcardSound
  <1>1. Init => WildcardSound
    BY DEF Init, WildcardSound
  <1>2. WildcardSound /\ [Next]_vars => WildcardSound'
    <2> SUFFICES ASSUME WildcardSound, [Next]_vars PROVE WildcardSound'
      OBVIOUS
    <2>1. CASE RecogniseWildcard
      BY <2>1, HeardIsSound DEF RecogniseWildcard, Called, WildcardSound
    <2> QED
      BY <2>1, Calls DEF WildcardSound
  <1> QED
    BY <1>1, <1>2, PTL DEF Spec

------------------------------------------------------------------------------
(* Lookups. *)

LoopStates(reply) ==
  [current : Names, seen : SUBSET Names, over : BOOLEAN,
   out : {LookupFails, Resolved(<<>>)} \union {Resolved(reply.addresses[n].recs) : n \in Names}]

LoopBegins(name) == [current |-> name, seen |-> {}, over |-> FALSE, out |-> LookupFails]

LEMMA HopType ==
  ASSUME NEW reply \in Replies, NEW s \in LoopStates(reply)
  PROVE  Hop(reply, s) \in LoopStates(reply)
  <1> DEFINE q == reply.addresses[s.current]
             c == reply.cnames[s.current]
             Return(out) == [s EXCEPT !.over = TRUE, !.out = out]
  <1>1. s.current \in Names
    BY DEF LoopStates
  <1>2. ~c.err /\ c.recs # <<>> => Head(c.recs) \in Names
    BY <1>1, InputsAssumption
  <1>3. /\ Return(LookupFails) \in LoopStates(reply)
        /\ Return(Resolved(<<>>)) \in LoopStates(reply)
        /\ Return(Resolved(q.recs)) \in LoopStates(reply)
    BY <1>1 DEF LoopStates
  <1>4. ~c.err /\ c.recs # <<>> =>
          [s EXCEPT !.current = Head(c.recs), !.seen = @ \union {s.current}] \in LoopStates(reply)
    BY <1>1, <1>2 DEF LoopStates
  <1> QED
    BY <1>3, <1>4 DEF Hop

\* The loop of lookupIP has a state before each of its passes.
LEMMA LoopRuns ==
  ASSUME NEW reply \in Replies, NEW name \in Names
  PROVE  \E s \in [Nat -> LoopStates(reply)] :
           /\ s[0] = LoopBegins(name)
           /\ \A k \in Nat : s[k + 1] = Hop(reply, s[k])
           /\ LookupIP(reply, name) = s[MaxHops].out
  <1> DEFINE S == LoopStates(reply)
             step == [x \in S |-> Hop(reply, x)]
             Is0(f) == f = [hop \in Nat |-> IF hop = 0 THEN LoopBegins(name)
                                            ELSE Hop(reply, f[hop - 1])]
             s == CHOOSE f : Is0(f)
  <1>1. LoopBegins(name) \in S /\ step \in [S -> S]
    BY HopType DEF LoopBegins, LoopStates
  <1>2. PICK g \in [Nat -> S] : g[0] = LoopBegins(name) /\ \A k \in Nat : g[k + 1] = step[g[k]]
    <2> HIDE DEF S, step
    <2> QED
      BY <1>1, Iterates
  <1>3. Is0(g)
    <2> DEFINE h == [hop \in Nat |-> IF hop = 0 THEN LoopBegins(name) ELSE Hop(reply, g[hop - 1])]
    <2>1. ASSUME NEW hop \in Nat PROVE g[hop] = h[hop]
      <3>1. CASE hop = 0
        BY <3>1, <1>2
      <3>2. CASE hop # 0
        <4>1. hop - 1 \in Nat /\ (hop - 1) + 1 = hop
          BY <3>2
        <4>2. g[hop] = step[g[hop - 1]] /\ g[hop - 1] \in S
          BY <4>1, <1>2
        <4> QED
          BY <4>2, <3>2
      <3> QED
        BY <3>1, <3>2
    <2> HIDE DEF S, step
    <2> QED
      BY <2>1, <1>2
  <1>4. Is0(s)
    <2> HIDE DEF Is0
    <2> QED
      BY <1>3
  <1>5. LookupIP(reply, name) = s[MaxHops].out
    BY DEF LookupIP, LoopBegins
  <1> HIDE DEF s
  <1>6. DOMAIN s = Nat /\ s = [k \in Nat |-> s[k]]
    BY <1>4
  <1>7. s[0] = LoopBegins(name)
    BY <1>4
  <1>8. ASSUME NEW k \in Nat PROVE s[k + 1] = Hop(reply, s[k])
    <2>1. k + 1 \in Nat /\ k + 1 # 0 /\ (k + 1) - 1 = k
      OBVIOUS
    <2> QED
      BY <1>4, <2>1
  <1>9. \A k \in Nat : s[k] \in S
    <2> DEFINE G == {k \in Nat : s[k] \in S}
    <2>1. 0 \in G
      BY <1>1, <1>7
    <2>2. \A k \in Nat : k \in G => k + 1 \in G
      BY <1>8, HopType
    <2>3. \A k \in Nat : k \in G
      <3> HIDE DEF G
      <3> QED
        BY <2>1, <2>2, Induction
    <2> QED
      BY <2>3
  <1>10. s \in [Nat -> S]
    BY <1>6, <1>9
  <1> QED
    BY <1>5, <1>7, <1>8, <1>10

\* The chain is one of names, and goes on as the aliases say.
LEMMA ChainRuns ==
  ASSUME NEW reply \in Replies, NEW name \in Names
  PROVE  LET at == Chain(reply, name) IN
         /\ at[0] = name
         /\ \A k \in Nat : /\ at[k] \in Names
                           /\ at[k + 1] = IF IsAlias(reply, at[k]) THEN Head(reply.cnames[at[k]].recs)
                                          ELSE at[k]
  <1> DEFINE Next0(n) == IF IsAlias(reply, n) THEN Head(reply.cnames[n].recs) ELSE n
             step == [n \in Names |-> Next0(n)]
             Is0(f) == f = [k \in Nat |-> IF k = 0 THEN name
                                          ELSE IF IsAlias(reply, f[k - 1])
                                               THEN Head(reply.cnames[f[k - 1]].recs) ELSE f[k - 1]]
             at == CHOOSE f : Is0(f)
  <1>1. \A n \in Names : Next0(n) \in Names
    BY InputsAssumption DEF IsAlias
  <1>2. PICK g \in [Nat -> Names] : g[0] = name /\ \A k \in Nat : g[k + 1] = step[g[k]]
    <2> DEFINE S == Names
    <2>1. step \in [S -> S] /\ name \in S
      BY <1>1
    <2>2. \E g \in [Nat -> S] : g[0] = name /\ \A k \in Nat : g[k + 1] = step[g[k]]
      <3> HIDE DEF S, step
      <3> QED
        BY <2>1, Iterates
    <2> QED
      BY <2>2
  <1>3. Is0(g)
    <2> DEFINE h == [k \in Nat |-> IF k = 0 THEN name
                                   ELSE IF IsAlias(reply, g[k - 1])
                                        THEN Head(reply.cnames[g[k - 1]].recs) ELSE g[k - 1]]
    <2>1. ASSUME NEW k \in Nat PROVE g[k] = h[k]
      <3>1. CASE k = 0
        BY <3>1, <1>2
      <3>2. CASE k # 0
        <4>1. k - 1 \in Nat /\ (k - 1) + 1 = k
          BY <3>2
        <4>2. g[k] = step[g[k - 1]] /\ g[k - 1] \in Names
          BY <4>1, <1>2
        <4> QED
          BY <4>2, <3>2
      <3> QED
        BY <3>1, <3>2
    <2> HIDE DEF step
    <2> QED
      BY <2>1, <1>2
  <1>4. Is0(at)
    <2> HIDE DEF Is0
    <2> QED
      BY <1>3
  <1>5. Chain(reply, name) = at
    BY DEF Chain
  <1> HIDE DEF at
  <1>6. at[0] = name
    BY <1>4
  <1>7. ASSUME NEW k \in Nat PROVE at[k + 1] = Next0(at[k])
    <2>1. k + 1 \in Nat /\ k + 1 # 0 /\ (k + 1) - 1 = k
      OBVIOUS
    <2> QED
      BY <1>4, <2>1
  <1>8. \A k \in Nat : at[k] \in Names
    <2> DEFINE G == {k \in Nat : at[k] \in Names}
    <2>1. 0 \in G
      BY <1>6
    <2>2. \A k \in Nat : k \in G => k + 1 \in G
      <3> HIDE DEF Next0
      <3> QED
        BY <1>1, <1>7
    <2>3. \A k \in Nat : k \in G
      <3> HIDE DEF G
      <3> QED
        BY <2>1, <2>2, Induction
    <2> QED
      BY <2>3
  <1> QED
    BY <1>5, <1>6, <1>7, <1>8

\* A name that is come to again is come to for ever.
LEMMA LoopHasNoEnd ==
  ASSUME NEW reply \in Replies, NEW name \in Names, NEW k \in Nat, NEW j \in 0..(k - 1),
         Chain(reply, name)[k] = Chain(reply, name)[j],
         \A i \in 0..(k - 1) : IsAlias(reply, Chain(reply, name)[i])
  PROVE  \A n \in Nat : IsAlias(reply, Chain(reply, name)[n])
  <1> DEFINE at == Chain(reply, name)
             G == {n \in Nat : \E i \in 0..(k - 1) : at[n] = at[i]}
  <1>1. \A n \in Nat : IsAlias(reply, at[n]) => at[n + 1] = Head(reply.cnames[at[n]].recs)
    BY ChainRuns
  <1> HIDE DEF at
  <1>2. 0 \in G
    <2>1. 0 \in 0..(k - 1)
      OBVIOUS
    <2> QED
      BY <2>1
  <1>3. ASSUME NEW n \in Nat, n \in G PROVE n + 1 \in G
    <2>1. PICK i \in 0..(k - 1) : at[n] = at[i]
      BY <1>3
    <2>2. IsAlias(reply, at[i])
      BY DEF at
    <2>3. at[n + 1] = at[i + 1]
      BY <1>1, <2>1, <2>2
    <2>4. CASE i + 1 \in 0..(k - 1)
      BY <2>3, <2>4
    <2>5. CASE i + 1 = k
      BY <2>3, <2>5 DEF at
    <2>6. i + 1 \in 0..(k - 1) \/ i + 1 = k
      OBVIOUS
    <2> QED
      BY <2>4, <2>5, <2>6
  <1>4. \A n \in Nat : n \in G
    <2> HIDE DEF G
    <2> QED
      BY <1>2, <1>3, Induction
  <1> QED
    BY <1>4 DEF at

LEMMA LookupFollowsChain ==
  ASSUME NEW reply \in Replies, NEW name \in Names
  PROVE  LET at == Chain(reply, name)
             Ends == {k \in 0..(MaxHops - 1) :
                        (\A i \in 0..(k - 1) : IsAlias(reply, at[i])) /\ ~IsAlias(reply, at[k])}
         IN  \/ Ends = {} /\ LookupIP(reply, name) = LookupFails
             \/ \E k \in Ends :
                  LET q == reply.addresses[at[k]]
                      c == reply.cnames[at[k]]
                  IN  IF q.err \/ (IsUnanswered(q) /\ c.err)
                      THEN LookupIP(reply, name) = LookupFails
                      ELSE LookupIP(reply, name) = Resolved(q.recs)
  <1> DEFINE at == Chain(reply, name)
             Q(k) == reply.addresses[at[k]]
             C(k) == reply.cnames[at[k]]
             Before(k) == \A i \in 0..(k - 1) : IsAlias(reply, at[i])
             Ends == {k \in 0..(MaxHops - 1) : Before(k) /\ ~IsAlias(reply, at[k])}
             Given(k) == IF Q(k).err \/ (IsUnanswered(Q(k)) /\ C(k).err) THEN LookupFails
                         ELSE Resolved(Q(k).recs)
             Right(r) == (Ends = {} /\ r = LookupFails) \/ \E k \in Ends : r = Given(k)
  <1>1. PICK s \in [Nat -> LoopStates(reply)] :
          /\ s[0] = LoopBegins(name)
          /\ \A k \in Nat : s[k + 1] = Hop(reply, s[k])
          /\ LookupIP(reply, name) = s[MaxHops].out
    BY LoopRuns
  <1> DEFINE Goes(k) == /\ Before(k) /\ s[k].current = at[k] /\ s[k].out = LookupFails
                        /\ s[k].seen = {at[i] : i \in 0..(k - 1)}
             G == {k \in Nat : k <= MaxHops =>
                     IF s[k].over THEN Right(s[k].out) ELSE Goes(k)}
  <1>2. /\ at[0] = name
        /\ \A k \in Nat : IsAlias(reply, at[k]) => at[k + 1] = Head(C(k).recs)
    BY ChainRuns
  <1>3. \A k \in Nat : (\E j \in 0..(k - 1) : at[k] = at[j]) /\ Before(k) =>
          \A n \in Nat : IsAlias(reply, at[n])
    BY LoopHasNoEnd
  <1> HIDE DEF at
  <1>4. 0 \in G
    <2>1. s[0].current = at[0] /\ s[0].seen = {} /\ s[0].over = FALSE /\ s[0].out = LookupFails
      BY <1>1, <1>2 DEF LoopBegins
    <2>2. 0..(0 - 1) = {}
      OBVIOUS
    <2> QED
      BY <2>1, <2>2
  <1>5. ASSUME NEW k \in Nat, k \in G PROVE k + 1 \in G
    <2> SUFFICES ASSUME k + 1 <= MaxHops
                 PROVE  IF s[k + 1].over THEN Right(s[k + 1].out) ELSE Goes(k + 1)
      OBVIOUS
    <2>1. /\ s[k + 1] = Hop(reply, s[k]) /\ k \in 0..(MaxHops - 1)
          /\ IF s[k].over THEN Right(s[k].out) ELSE Goes(k)
      BY <1>1, <1>5, HopsAssumption
    <2>2. CASE s[k].over
      <3>1. s[k + 1] = s[k]
        BY <2>1, <2>2 DEF Hop
      <3> QED
        BY <2>1, <2>2, <3>1
    <2> DEFINE Return(out) == [s[k] EXCEPT !.over = TRUE, !.out = out]
    <2>3. CASE ~s[k].over
      <3>1. Goes(k)
        BY <2>1, <2>3
      <3>2. \A out : Return(out).over = TRUE /\ Return(out).out = out
        BY <1>1 DEF LoopStates
      <3>3. CASE s[k].current \in s[k].seen
        <4>1. s[k + 1] = Return(LookupFails)
          BY <2>1, <2>3, <3>3 DEF Hop
        <4>2. \E j \in 0..(k - 1) : at[k] = at[j]
          BY <3>1, <3>3
        <4>3. Ends = {}
          BY <1>3, <3>1, <4>2
        <4> QED
          BY <3>2, <4>1, <4>3
      <3>4. CASE s[k].current \notin s[k].seen /\ ~IsAlias(reply, at[k])
        <4>1. k \in Ends
          BY <2>1, <3>1, <3>4
        <4>2. s[k + 1] = Return(Given(k))
          <5>1. /\ s[k].current = at[k] /\ s[k].current \notin s[k].seen /\ ~s[k].over
            BY <2>3, <3>1, <3>4
          <5>2. \/ Q(k).err \/ Q(k).recs # <<>> \/ Q(k).rcode = "NXDOMAIN"
                \/ C(k).err \/ C(k).recs = <<>>
            BY <3>4 DEF IsAlias, IsUnanswered
          <5> QED
            BY <2>1, <5>1, <5>2 DEF Hop, IsUnanswered
        <4> QED
          BY <3>2, <4>1, <4>2
      <3>5. CASE s[k].current \notin s[k].seen /\ IsAlias(reply, at[k])
        <4>1. s[k + 1] = [s[k] EXCEPT !.current = Head(C(k).recs), !.seen = @ \union {at[k]}]
          BY <2>1, <2>3, <3>1, <3>5 DEF Hop, IsAlias, IsUnanswered
        <4>2. /\ s[k + 1].current = at[k + 1] /\ s[k + 1].out = LookupFails
              /\ s[k + 1].seen = s[k].seen \union {at[k]} /\ ~s[k + 1].over
          BY <1>1, <1>2, <2>3, <3>1, <3>5, <4>1 DEF LoopStates
        <4>3. 0..((k + 1) - 1) = (0..(k - 1)) \union {k}
          OBVIOUS
        <4>4. Before(k + 1)
          BY <3>1, <3>5, <4>3
        <4>5. s[k + 1].seen = {at[i] : i \in 0..((k + 1) - 1)}
          BY <3>1, <4>2, <4>3
        <4> QED
          BY <4>2, <4>4, <4>5
      <3> QED
        BY <3>3, <3>4, <3>5
    <2> QED
      BY <2>2, <2>3
  <1>6. \A k \in Nat : k \in G
    <2> HIDE DEF G
    <2> QED
      BY <1>4, <1>5, Induction
  <1>7. Right(s[MaxHops].out)
    <2>1. MaxHops \in G /\ MaxHops \in Nat
      BY <1>6, HopsAssumption
    <2>2. CASE s[MaxHops].over
      BY <2>1, <2>2
    <2>3. CASE ~s[MaxHops].over
      <3>1. Before(MaxHops) /\ s[MaxHops].out = LookupFails
        BY <2>1, <2>3
      <3>2. Ends = {}
        BY <3>1
      <3> QED
        BY <3>1, <3>2
    <2> QED
      BY <2>2, <2>3
  <1>8. Right(LookupIP(reply, name))
    BY <1>1, <1>7
  <1> QED
    BY <1>8 DEF at

\* Within MaxHops names a lookup comes to the one that is no alias and has its
\* outcome; on a chain that loops or goes on it fails (resolver.go:205-238).
THEOREM ChasesFollowChains == Spec => []ChaseFollowsChain
  <1>1. Init => ChaseFollowsChain
    BY DEF Init, ChaseFollowsChain
  <1>2. ChaseFollowsChain /\ [Next]_vars => ChaseFollowsChain'
    <2> SUFFICES ASSUME ChaseFollowsChain, [Next]_vars PROVE ChaseFollowsChain'
      OBVIOUS
    <2>1. CASE ChaseAliases
      <3>1. PICK reply \in Replies, name \in Names :
              /\ call' = [op |-> "lookupIP", reply |-> reply, name |-> name]
              /\ result' = LookupIP(reply, name)
        BY <2>1 DEF ChaseAliases, Called
      <3>2. call'.reply = reply /\ call'.name = name
        BY <3>1
      <3> QED
        BY <3>1, <3>2, LookupFollowsChain DEF ChaseFollowsChain
    <2>2. CASE UNCHANGED <<call, result>>
      BY <2>2 DEF ChaseFollowsChain
    <2> QED
      BY <2>1, <2>2, Calls DEF ChaseFollowsChain
  <1> QED
    BY <1>1, <1>2, PTL DEF Spec

------------------------------------------------------------------------------
(* Ports. *)

\* A part of a specification fails, or stands for the ports it names.
LEMMA PartMeans ==
  ASSUME NEW part \in Seq({Junk} \union Int), Len(part) <= 2
  PROVE  /\ PartFails(part) <=>
              \/ Junk \in ToSet(part)
              \/ \E i \in DOMAIN part : part[i] < 1 \/ part[i] > MaxPort
              \/ part # <<>> /\ part[1] > Last(part)
         /\ ~PartFails(part) =>
              \A p : p \in PortsOf(part) <=>
                       /\ p \in 1..MaxPort
                       /\ \/ part = <<p>>
                          \/ Len(part) = 2 /\ part[1] <= p /\ p <= part[2]
  <1>1. MaxPort \in Nat
    BY PortsAssumption
  <1>2. CASE Len(part) = 0
    <2>1. part = <<>> /\ DOMAIN part = {}
      BY <1>2
    <2>2. ~PartFails(part) /\ PortsOf(part) = {}
      BY <2>1, <1>2 DEF PartFails, PortsOf
    <2>3. \A p : part # <<p>>
      BY <1>2
    <2> QED
      BY <2>1, <2>2, <2>3, <1>2 DEF ToSet
  <1>3. CASE Len(part) = 1
    <2> DEFINE a == part[1]
    <2>1. DOMAIN part = {1} /\ a \in {Junk} \union Int /\ part # <<>> /\ Last(part) = a
      BY <1>3 DEF Last
    <2>2. \A p : part = <<p>> <=> p = a
      BY <1>3
    <2>3. PartFails(part) <=> a = Junk \/ a \notin 1..MaxPort
      BY <2>1, <1>3 DEF PartFails, ValidPort
    <2>4. PortsOf(part) = a..a
      BY <2>1 DEF PortsOf
    <2>5. Junk \in ToSet(part) <=> a = Junk
      BY <2>1 DEF ToSet
    <2> QED
      BY <1>1, <2>1, <2>2, <2>3, <2>4, <2>5, <1>3
  <1>4. CASE Len(part) = 2
    <2> DEFINE a == part[1]
               b == part[2]
    <2>1. /\ DOMAIN part = {1, 2} /\ part # <<>> /\ Last(part) = b
          /\ a \in {Junk} \union Int /\ b \in {Junk} \union Int
      BY <1>4 DEF Last
    <2>2. \A p : part # <<p>>
      BY <1>4
    <2>3. PartFails(part) <=> \/ a = Junk \/ a \notin 1..MaxPort
                              \/ b = Junk \/ b \notin 1..MaxPort
                              \/ a > b
      BY <2>1, <1>4 DEF PartFails, ValidPort
    <2>4. PortsOf(part) = a..b
      BY <2>1 DEF PortsOf
    <2>5. Junk \in ToSet(part) <=> a = Junk \/ b = Junk
      BY <2>1 DEF ToSet
    <2> QED
      BY <1>1, <2>1, <2>2, <2>3, <2>4, <2>5, <1>4
  <1>5. Len(part) = 0 \/ Len(part) = 1 \/ Len(part) = 2
    <2> DEFINE n == Len(part)
    <2>1. n \in Nat /\ n <= 2
      OBVIOUS
    <2> HIDE DEF n
    <2>2. n = 0 \/ n = 1 \/ n = 2
      BY <2>1
    <2> QED
      BY <2>2 DEF n
  <1> QED
    BY <1>2, <1>3, <1>4, <1>5

LEMMA ParsedPorts ==
  ASSUME NEW spec \in Specs, spec \notin {Blank, Every}
  PROVE  LET parsed == ParsePorts(spec)
             Named(p) == \E i \in DOMAIN spec : LET part == spec[i] IN
                            \/ part = <<p>>
                            \/ Len(part) = 2 /\ part[1] <= p /\ p <= part[2]
             Wrong(part) == \/ Junk \in ToSet(part)
                            \/ \E i \in DOMAIN part : part[i] < 1 \/ part[i] > MaxPort
                            \/ part # <<>> /\ part[1] > Last(part)
         IN  IF (\E i \in DOMAIN spec : Wrong(spec[i])) \/ ~(\E p \in 1..MaxPort : Named(p))
             THEN ~parsed.ok
             ELSE /\ parsed.ok
                  /\ ToSet(parsed.ports) = {p \in 1..MaxPort : Named(p)}
                  /\ Increasing(parsed.ports)
  <1> DEFINE Names0(part, p) == \/ part = <<p>>
                                \/ Len(part) = 2 /\ part[1] <= p /\ p <= part[2]
             Named(p) == \E i \in DOMAIN spec : Names0(spec[i], p)
             Wrong(part) == \/ Junk \in ToSet(part)
                            \/ \E i \in DOMAIN part : part[i] < 1 \/ part[i] > MaxPort
                            \/ part # <<>> /\ part[1] > Last(part)
             seen == UNION {PortsOf(spec[i]) : i \in DOMAIN spec}
             fails == \E i \in DOMAIN spec : PartFails(spec[i])
  <1>1. \A i \in DOMAIN spec : spec[i] \in Seq({Junk} \union Int) /\ Len(spec[i]) <= 2
    BY InputsAssumption
  <1>2. ASSUME NEW i \in DOMAIN spec
        PROVE  /\ PartFails(spec[i]) <=> Wrong(spec[i])
               /\ ~PartFails(spec[i]) => \A p : p \in PortsOf(spec[i]) <=>
                                                  p \in 1..MaxPort /\ Names0(spec[i], p)
    BY <1>1, PartMeans
  <1> HIDE DEF Names0, Wrong
  <1>3. ParsePorts(spec) = IF fails \/ seen = {} THEN Refused ELSE Listed(Ascending(seen))
    BY DEF ParsePorts
  <1>4. fails <=> \E i \in DOMAIN spec : Wrong(spec[i])
    BY <1>2
  <1>5. ~fails => seen = {p \in 1..MaxPort : Named(p)}
    <2> SUFFICES ASSUME ~fails PROVE \A p : p \in seen <=> p \in 1..MaxPort /\ Named(p)
      OBVIOUS
    <2>1. \A p : p \in seen <=> \E i \in DOMAIN spec : p \in PortsOf(spec[i])
      OBVIOUS
    <2>2. \A p : p \in seen <=> \E i \in DOMAIN spec : p \in 1..MaxPort /\ Names0(spec[i], p)
      BY <2>1, <1>2
    <2> QED
      BY <2>2
  <1>6. ~Refused.ok /\ Listed(Ascending(seen)).ok /\ Listed(Ascending(seen)).ports = Ascending(seen)
    BY DEF Refused, Listed
  <1> HIDE DEF seen, fails, Named
  <1>7. CASE fails \/ seen = {}
    <2>1. ~ParsePorts(spec).ok
      BY <1>3, <1>6, <1>7
    <2>2. (\E i \in DOMAIN spec : Wrong(spec[i])) \/ ~(\E p \in 1..MaxPort : Named(p))
      BY <1>4, <1>5, <1>7
    <2> QED
      BY <2>1, <2>2 DEF Named, Names0, Wrong
  <1>8. CASE ~fails /\ seen # {}
    <2>1. ParsePorts(spec) = Listed(Ascending(seen))
      BY <1>3, <1>8
    <2>2. seen \in SUBSET (1..MaxPort) /\ seen = {p \in 1..MaxPort : Named(p)}
      BY <1>5, <1>8
    <2>3. Increasing(Ascending(seen)) /\ ToSet(Ascending(seen)) = seen
      BY <2>2, PortsAssumption, AscendingSorts
    <2>4. /\ ~(\E i \in DOMAIN spec : Wrong(spec[i])) /\ \E p \in 1..MaxPort : Named(p)
          /\ ParsePorts(spec).ok
          /\ ToSet(ParsePorts(spec).ports) = {p \in 1..MaxPort : Named(p)}
          /\ Increasing(ParsePorts(spec).ports)
      BY <1>4, <1>6, <1>8, <2>1, <2>2, <2>3
    <2> QED
      BY <2>4 DEF Named, Names0, Wrong
  <1> QED
    BY <1>7, <1>8

\* A specification is refused, or gives each port it names once, in order and within
\* range, and no other (ports.go:25-31).
THEOREM PortsAreExact == Spec => []PortsExact
  <1>1. Init => PortsExact
    BY DEF Init, PortsExact
  <1>2. PortsExact /\ [Next]_vars => PortsExact'
    <2> SUFFICES ASSUME PortsExact, [Next]_vars PROVE PortsExact'
      OBVIOUS
    <2>1. CASE ReadPorts
      <3>1. PICK spec \in Specs : call' = [op |-> "ports", spec |-> spec]
                                  /\ result' = ParsePorts(spec)
        BY <2>1 DEF ReadPorts, Called
      <3>2. call'.spec = spec
        BY <3>1
      <3> QED
        BY <3>1, <3>2, ParsedPorts DEF PortsExact, Increasing
    <2>2. CASE UNCHANGED <<call, result>>
      BY <2>2 DEF PortsExact
    <2> QED
      BY <2>1, <2>2, Calls DEF PortsExact
  <1> QED
    BY <1>1, <1>2, PTL DEF Spec

------------------------------------------------------------------------------
(* Arguments. *)

\* What a token is taken for depends on it, the one before it and what that was taken for.
RoleAfter(args, role, i) ==
  IF /\ i > 1 /\ role[i - 1] = "flag"
     /\ \/ args[i - 1] \in TakesValue
        \/ args[i - 1] \in MayTakeValue /\ ~LooksLikeFlag(args[i])
  THEN "value"
  ELSE IF LooksLikeFlag(args[i]) THEN "flag" ELSE "positional"

LEMMA RolesRun ==
  ASSUME NEW T, NEW args \in Seq(T)
  PROVE  /\ Roles(args) \in [1..Len(args) -> {"value", "flag", "positional"}]
         /\ \A i \in 1..Len(args) : Roles(args)[i] = RoleAfter(args, Roles(args), i)
  <1> DEFINE S == {"value", "flag", "positional"}
             m == Len(args)
             Kind(i) == IF LooksLikeFlag(args[i]) THEN "flag" ELSE "positional"
             Taken(i) == \/ args[i] \in TakesValue
                         \/ args[i] \in MayTakeValue /\ ~LooksLikeFlag(args[i + 1])
             step == [i \in Nat |-> [r \in S |-> IF r = "flag" /\ Taken(i) THEN "value"
                                                 ELSE Kind(i + 1)]]
             Is0(f) == f = [i \in DOMAIN args |->
                              IF /\ i > 1 /\ f[i - 1] = "flag"
                                 /\ \/ args[i - 1] \in TakesValue
                                    \/ args[i - 1] \in MayTakeValue /\ ~LooksLikeFlag(args[i])
                              THEN "value"
                              ELSE IF LooksLikeFlag(args[i]) THEN "flag" ELSE "positional"]
             r == CHOOSE f : Is0(f)
  <1>1. m \in Nat /\ DOMAIN args = 1..m
    OBVIOUS
  <1>2. (\A i \in Nat : step[i] \in [S -> S]) /\ Kind(1) \in S
    <2> HIDE DEF Taken
    <2> QED
      OBVIOUS
  <1>3. PICK g : Unfolds(g, S, Kind(1), step, m)
    <2> HIDE DEF S, step, m, Kind
    <2> QED
      BY <1>1, <1>2, ListUnfolds
  <1>4. Is0(g)
    <2> DEFINE h == [i \in 1..m |-> RoleAfter(args, g, i)]
    <2>1. ASSUME NEW i \in 1..m PROVE g[i] = RoleAfter(args, g, i)
      <3>1. CASE i = 1
        BY <1>1, <1>3, <3>1 DEF Unfolds, RoleAfter
      <3>2. CASE i # 1
        <4>1. i - 1 \in 1..m /\ (i - 1) + 1 = i /\ i - 1 \in Nat /\ i > 1
          BY <1>1, <3>2
        <4>2. g[i] = step[i - 1][g[i - 1]] /\ g[i - 1] \in S
          <5> HIDE DEF S, step, m, Kind
          <5> QED
            BY <1>3, <4>1 DEF Unfolds
        <4>3. g[i] = IF g[i - 1] = "flag" /\ Taken(i - 1) THEN "value" ELSE Kind((i - 1) + 1)
          <5> HIDE DEF S, m, Kind, Taken
          <5> QED
            BY <4>1, <4>2
        <4>4. g[i] = IF g[i - 1] = "flag" /\ Taken(i - 1) THEN "value" ELSE Kind(i)
          <5> HIDE DEF S, step, m, Kind, Taken
          <5> QED
            BY <4>1, <4>3
        <4>5. Taken(i - 1) <=> \/ args[i - 1] \in TakesValue
                               \/ args[i - 1] \in MayTakeValue /\ ~LooksLikeFlag(args[i])
          BY <4>1
        <4> HIDE DEF Taken
        <4> QED
          BY <4>1, <4>4, <4>5 DEF RoleAfter
      <3> QED
        BY <3>1, <3>2
    <2>2. DOMAIN g = 1..m /\ g = [i \in 1..m |-> g[i]]
      <3> HIDE DEF S, m, step
      <3> QED
        BY <1>3 DEF Unfolds
    <2> HIDE DEF S, step
    <2>3. g = h
      BY <2>1, <2>2
    <2> QED
      BY <1>1, <2>3 DEF RoleAfter
  <1>5. Is0(r)
    <2> HIDE DEF Is0
    <2> QED
      BY <1>4
  <1>6. Roles(args) = [i \in DOMAIN args |-> r[i]]
    BY DEF Roles
  <1> HIDE DEF r
  <1>7. r = [i \in 1..m |-> RoleAfter(args, r, i)]
    BY <1>1, <1>5 DEF RoleAfter
  <1>8. Roles(args) = r
    BY <1>1, <1>6, <1>7
  <1>9. \A i \in 1..m : r[i] = RoleAfter(args, r, i) /\ r[i] \in S
    BY <1>7 DEF RoleAfter
  <1> QED
    BY <1>7, <1>8, <1>9

LEMMA UnitType ==
  ASSUME NEW u \in Units
  PROVE  /\ u \in Seq(STRING)
         /\ u = Target => Len(u) = 1 /\ u[1] \in Word
         /\ u # Target =>
              /\ u[1] \notin Word
              /\ \/ Len(u) = 1 /\ u[1] \notin TakesValue
                 \/ /\ Len(u) = 2
                    /\ u[1] \in TakesValue \/ (u[1] \in MayTakeValue /\ u[2] \in Word)
         /\ \A w \in Word : w \notin TakesValue /\ w \notin MayTakeValue
  <1>1. u \in Seq(STRING)
    BY UnitsAssumption
  <1>2. PICK w \in Word : Target = <<w>>
    BY UnitsAssumption
  <1>3. Len(Target) = 1 /\ Target[1] \in Word
    BY <1>2
  <1>4. TakesValue \union MayTakeValue \subseteq Implemented \union NotYet
    BY DEF TakesValue, MayTakeValue, Implemented, NotYet
  <1>5. \A w2 \in Word : w2 \notin TakesValue /\ w2 \notin MayTakeValue
    BY <1>4, UnitsAssumption
  <1>6. u # Target =>
          /\ u[1] \notin Word
          /\ \/ Len(u) = 1 /\ u[1] \notin TakesValue
             \/ /\ Len(u) = 2
                /\ u[1] \in TakesValue \/ (u[1] \in MayTakeValue /\ u[2] \in Word)
    BY UnitsAssumption
  <1> QED
    BY <1>1, <1>3, <1>5, <1>6

\* The unit before i takes what follows, if it is a word.
Open(units, i) == i > 1 /\ Len(units[i - 1]) = 1 /\ units[i - 1][1] \in MayTakeValue

\* What the tokens of unit i are taken for, with r the role of each token.
ReadAs(r, units, E, i) ==
  IF units[i] = Target THEN r[E[i]] = IF Open(units, i) THEN "value" ELSE "positional"
  ELSE r[E[i - 1] + 1] = "flag" /\ (Len(units[i]) = 2 => r[E[i]] = "value")

\* A unit is read as it is meant, whatever comes before it; only the target may be
\* taken for a value.
LEMMA UnitsRead ==
  ASSUME NEW n \in Nat, NEW units \in [1..n -> Units], NEW args \in Seq(STRING), NEW E,
         Places(E, units, n, args)
  PROVE  \A i \in 1..n : ReadAs(Roles(args), units, E, i)
  <1> DEFINE r == Roles(args)
             m == Len(args)
             G == {i \in Nat : i \in 1..n => ReadAs(r, units, E, i)}
  <1>1. /\ E \in [0..n -> Nat] /\ E[0] = 0 /\ E[n] = m
        /\ \A i \in 1..n : E[i] = E[i - 1] + Len(units[i])
        /\ \A i \in 1..n : \A k \in 1..Len(units[i]) :
             E[i - 1] + k \in 1..m /\ args[E[i - 1] + k] = units[i][k]
    BY DEF Places
  <1>2. \A i \in 1..m : r[i] = RoleAfter(args, r, i)
    BY RolesRun
  <1> HIDE DEF r
  <1>3. 0 \in G
    OBVIOUS
  <1>4. ASSUME NEW i \in Nat, i \in G PROVE i + 1 \in G
    <2> SUFFICES ASSUME i + 1 \in 1..n PROVE ReadAs(r, units, E, i + 1)
      OBVIOUS
    <2> DEFINE u == units[i + 1]
               e == E[i]
    <2>1. u \in Units /\ (i + 1) - 1 = i
      OBVIOUS
    <2>2. /\ u = Target => Len(u) = 1 /\ u[1] \in Word
          /\ u # Target =>
               /\ u[1] \notin Word
               /\ \/ Len(u) = 1 /\ u[1] \notin TakesValue
                  \/ /\ Len(u) = 2
                     /\ u[1] \in TakesValue \/ (u[1] \in MayTakeValue /\ u[2] \in Word)
      BY <2>1, UnitType
    <2>3. e \in Nat /\ E[i + 1] = e + Len(u) /\ Len(u) \in 1..2
      BY <1>1, <2>1, <2>2
    <2>4. \A k \in 1..Len(u) : e + k \in 1..m /\ args[e + k] = u[k]
      BY <1>1, <2>1
    <2>5. e + 1 \in 1..m /\ args[e + 1] = u[1]
      BY <2>3, <2>4
    \* The token before the unit.
    <2>6. /\ i = 0 => e = 0
          /\ i # 0 => /\ i \in 1..n /\ e \in 1..m
                      /\ IF Open(units, i + 1)
                         THEN /\ r[e] = "flag"
                              /\ args[e] \in MayTakeValue /\ args[e] \notin TakesValue
                         ELSE r[e] = "flag" => args[e] \notin TakesValue
                                               /\ args[e] \notin MayTakeValue
      <3>1. i = 0 => e = 0
        BY <1>1
      <3> SUFFICES ASSUME i # 0
                   PROVE  /\ i \in 1..n /\ e \in 1..m
                          /\ IF Open(units, i + 1)
                             THEN /\ r[e] = "flag"
                                  /\ args[e] \in MayTakeValue /\ args[e] \notin TakesValue
                             ELSE r[e] = "flag" => args[e] \notin TakesValue
                                                   /\ args[e] \notin MayTakeValue
        BY <3>1
      <3> DEFINE v == units[i]
                 d == E[i - 1]
      <3>2. i \in 1..n /\ v \in Units
        OBVIOUS
      <3>3. /\ v = Target => Len(v) = 1 /\ v[1] \in Word
            /\ v # Target =>
                 /\ v[1] \notin Word
                 /\ \/ Len(v) = 1 /\ v[1] \notin TakesValue
                    \/ /\ Len(v) = 2
                       /\ v[1] \in TakesValue \/ (v[1] \in MayTakeValue /\ v[2] \in Word)
            /\ \A w \in Word : w \notin TakesValue /\ w \notin MayTakeValue
        BY <3>2, UnitType
      <3>4. d \in Nat /\ e = d + Len(v) /\ Len(v) \in 1..2
        <4>1. i - 1 \in 0..n
          BY <3>2
        <4> QED
          BY <1>1, <3>2, <3>3, <4>1
      <3>5. \A k \in 1..Len(v) : d + k \in 1..m /\ args[d + k] = v[k]
        BY <1>1, <3>2
      <3>6. e \in 1..m /\ args[e] = v[Len(v)]
        <4> DEFINE l == Len(v)
        <4>1. d \in Nat /\ e = d + l /\ l \in 1..2
          BY <3>4
        <4> HIDE DEF l, d, e, m, v
        <4>2. l \in 1..l /\ d + l = e
          BY <4>1
        <4>3. d + l \in 1..m /\ args[d + l] = v[l]
          BY <3>5, <4>2 DEF l
        <4> QED
          BY <4>2, <4>3 DEF l
      <3>7. ReadAs(r, units, E, i)
        BY <1>4, <3>2
      <3>8. Open(units, i + 1) <=> Len(v) = 1 /\ v[1] \in MayTakeValue
        BY <2>1, <3>2 DEF Open
      <3> HIDE DEF e, d, v, m
      <3>9. CASE v = Target
        <4>1. r[e] # "flag"
          BY <3>7, <3>9 DEF ReadAs, v, e
        <4>2. ~Open(units, i + 1)
          BY <3>3, <3>8, <3>9
        <4> QED
          BY <3>2, <3>6, <4>1, <4>2
      <3>10. CASE v # Target /\ Len(v) = 1
        <4>1. e = d + 1 /\ args[e] = v[1]
          BY <3>4, <3>6, <3>10
        <4>2. r[e] = "flag"
          BY <3>7, <3>10, <4>1 DEF ReadAs, v, d
        <4> QED
          BY <3>2, <3>3, <3>6, <3>8, <3>10, <4>1, <4>2 DEF v
      <3>11. CASE v # Target /\ Len(v) = 2
        <4>1. r[e] = "value"
          BY <3>7, <3>11 DEF ReadAs, v, e
        <4>2. ~Open(units, i + 1)
          BY <3>8, <3>11
        <4> QED
          BY <3>2, <3>6, <4>1, <4>2
      <3> QED
        BY <3>3, <3>9, <3>10, <3>11
    <2>7. r[e + 1] = RoleAfter(args, r, e + 1) /\ (e + 1) - 1 = e /\ (e + 1 > 1 <=> i # 0)
      <3>1. i # 0 => e \in 1..m
        BY <2>6
      <3> HIDE DEF e, m
      <3> QED
        BY <1>2, <2>3, <2>5, <2>6, <3>1
    <2>8. ASSUME u = Target PROVE ReadAs(r, units, E, i + 1)
      <3>1. E[i + 1] = e + 1 /\ ~LooksLikeFlag(args[e + 1])
        BY <2>2, <2>3, <2>5, <2>8 DEF LooksLikeFlag
      <3>2. r[e + 1] = IF Open(units, i + 1) THEN "value" ELSE "positional"
        <4>1. i = 0 => ~Open(units, i + 1)
          BY DEF Open
        <4> HIDE DEF e, u
        <4> QED
          BY <2>6, <2>7, <3>1, <4>1 DEF RoleAfter
      <3> QED
        BY <2>8, <3>1, <3>2 DEF ReadAs
    <2>9. ASSUME u # Target PROVE ReadAs(r, units, E, i + 1)
      <3>1. LooksLikeFlag(args[e + 1])
        BY <2>2, <2>5, <2>9 DEF LooksLikeFlag
      <3>2. r[e + 1] = "flag"
        <4> HIDE DEF e, u
        <4> QED
          BY <2>6, <2>7, <3>1 DEF RoleAfter
      <3>3. Len(u) = 2 => r[E[i + 1]] = "value"
        <4> SUFFICES ASSUME Len(u) = 2 PROVE r[E[i + 1]] = "value"
          OBVIOUS
        <4>1. E[i + 1] = e + 2 /\ e + 2 \in 1..m /\ args[e + 2] = u[2]
          BY <2>3, <2>4
        <4>2. r[e + 2] = RoleAfter(args, r, e + 2) /\ (e + 2) - 1 = e + 1 /\ e + 2 > 1
          BY <1>2, <2>3, <4>1
        <4>3. u[1] \in TakesValue \/ (u[1] \in MayTakeValue /\ ~LooksLikeFlag(u[2]))
          BY <2>2, <2>9 DEF LooksLikeFlag
        <4> HIDE DEF e, u
        <4> QED
          BY <2>5, <3>2, <4>1, <4>2, <4>3 DEF RoleAfter
      <3> QED
        BY <2>1, <2>9, <3>2, <3>3 DEF ReadAs
    <2> QED
      BY <2>8, <2>9
  <1>5. \A i \in Nat : i \in G
    <2> HIDE DEF G
    <2> QED
      BY <1>3, <1>4, Induction
  <1> QED
    BY <1>5 DEF r

LEMMA MaxIs ==
  ASSUME NEW S \in SUBSET Int, NEW m \in S, \A y \in S : y <= m
  PROVE  Max(S) = m
  <1>1. Max(S) \in S /\ \A y \in S : Max(S) >= y
    <2>1. \A y \in S : m >= y
      OBVIOUS
    <2> QED
      BY <2>1 DEF Max
  <1>2. Max(S) \in Int /\ m \in Int /\ m <= Max(S) /\ Max(S) <= m
    BY <1>1
  <1> QED
    BY <1>2

\* What follows a flag in a unit of one or two words.
LEMMA ShortTails ==
  ASSUME NEW T, NEW u \in Seq(T)
  PROVE  /\ Len(u) = 1 => Tail(u) = <<>>
         /\ Len(u) = 2 => Tail(u) = <<u[2]>>
  <1>1. Len(u) # 0 => /\ Tail(u) \in Seq(T) /\ Len(Tail(u)) = Len(u) - 1
                     /\ \A i \in 1..Len(Tail(u)) : Tail(u)[i] = u[i + 1]
    OBVIOUS
  <1> DEFINE t == Tail(u)
  <1> HIDE DEF t
  <1>2. ASSUME Len(u) = 1 PROVE t = <<>>
    <2>1. t \in Seq(T) /\ Len(t) = 0
      BY <1>1, <1>2 DEF t
    <2> QED
      BY <2>1
  <1>3. ASSUME Len(u) = 2 PROVE t = <<u[2]>>
    <2>1. t \in Seq(T) /\ Len(t) = 1 /\ t[1] = u[2]
      BY <1>1, <1>3 DEF t
    <2> QED
      BY <2>1
  <1> QED
    BY <1>2, <1>3 DEF t

\* What parseScanArgs makes of units of which no two begin alike.
LEMMA ArgsRead ==
  ASSUME NEW n \in Nat, n # 0, NEW units \in [1..n -> Units],
         \A i, j \in 1..n : i # j => units[i][1] # units[j][1]
  PROVE  LET set == ToSet(units)
             Swallowed == \E i \in 1..(Len(units) - 1) :
                            /\ Len(units[i]) = 1 /\ units[i][1] \in MayTakeValue
                            /\ units[i + 1] = Target
             Flag(f) == \E u \in set : u[1] = f
             Value(f) == IF Flag(f) THEN Tail(CHOOSE u \in set : u[1] = f) ELSE <<>>
             result0 == ParseScanArgs(FlattenSeq(units))
         IN  IF \/ Swallowed \/ Target \notin set
                \/ \E u \in set \ {Target} : u[1] \notin {"-d", "-p", "-tcp", "-brute"}
                \/ set = {Target}
             THEN result0 = ScanRefused
             ELSE result0 = [ok |-> TRUE, target |-> Target[1], discover |-> Flag("-d"),
                             allPorts |-> Flag("-p"), brute |-> Flag("-brute"),
                             wordlist |-> Value("-brute"), tcp |-> Flag("-tcp"),
                             spec |-> Value("-tcp")]
  <1> DEFINE args == FlattenSeq(units)
             r == Roles(args)
             m == Len(args)
             set == ToSet(units)
             Swallowed == \E i \in 1..(Len(units) - 1) :
                            /\ Len(units[i]) = 1 /\ units[i][1] \in MayTakeValue
                            /\ units[i + 1] = Target
             Flag(f) == \E u \in set : u[1] = f
             Value(f) == IF Flag(f) THEN Tail(CHOOSE u \in set : u[1] = f) ELSE <<>>
             PlacesOf(f) == {i \in DOMAIN args : r[i] = "flag" /\ args[i] = f}
             flags == {args[i] : i \in {j \in DOMAIN args : r[j] = "flag"}}
             positional == {i \in DOMAIN args : r[i] = "positional"}
             Next1(f) == Max(PlacesOf(f)) + 1
             ValueOf(f) ==
               IF PlacesOf(f) = {} THEN <<>>
               ELSE IF Next1(f) \in DOMAIN args /\ r[Next1(f)] = "value" THEN <<args[Next1(f)]>>
               ELSE <<>>
             Lacking == args # <<>> /\ Last(r) = "flag" /\ Last(args) \in TakesValue
  <1>1. /\ Len(units) = n /\ set = {units[i] : i \in 1..n}
        /\ \A i \in 1..n : units[i] \in Units
    BY DEF ToSet
  <1>2. args \in Seq(STRING) /\ \E E : Places(E, units, n, args)
    <2>1. units \in [1..n -> Seq(STRING)]
      BY <1>1, UnitType
    <2> QED
      BY <2>1, FlattenPlaces
  <1>3. PICK E : Places(E, units, n, args)
    BY <1>2
  <1>4. m \in Nat /\ DOMAIN args = 1..m /\ E \in [0..n -> Nat] /\ E[n] = m
    BY <1>2, <1>3 DEF Places
  <1>5. \A i \in 1..n : ReadAs(r, units, E, i)
    BY <1>2, <1>3, UnitsRead
  <1>6. /\ r \in [1..m -> {"value", "flag", "positional"}]
        /\ Len(r) = m
    <2>1. r \in [1..m -> {"value", "flag", "positional"}]
      BY <1>2, RolesRun
    <2> HIDE DEF r, m
    <2> QED
      BY <1>4, <2>1
  <1> HIDE DEF args, r, m
  <1> DEFINE First(i) == E[i - 1] + 1
             Other == {i \in 1..n : units[i] # Target}
  <1>7. ASSUME NEW i \in 1..n
        PROVE  /\ units[i] = Target => Len(units[i]) = 1 /\ units[i][1] \in Word
               /\ units[i] # Target =>
                    /\ units[i][1] \notin Word
                    /\ \/ Len(units[i]) = 1 /\ units[i][1] \notin TakesValue
                       \/ /\ Len(units[i]) = 2
                          /\ \/ units[i][1] \in TakesValue
                             \/ units[i][1] \in MayTakeValue /\ units[i][2] \in Word
               /\ units[i] \in Seq(STRING)
               /\ \A w \in Word : w \notin TakesValue /\ w \notin MayTakeValue
    BY <1>1, UnitType
  <1>8. ASSUME NEW i \in 1..n
        PROVE  /\ First(i) \in 1..m /\ args[First(i)] = units[i][1]
               /\ Len(units[i]) = 1 => E[i] = First(i)
               /\ Len(units[i]) = 2 => E[i] = First(i) + 1 /\ args[E[i]] = units[i][2]
               /\ E[i] \in 1..m
    <2> DEFINE d == E[i - 1]
               u == units[i]
    <2>1. d \in Nat /\ E[i] = d + Len(u)
      <3>1. i - 1 \in 0..n
        OBVIOUS
      <3> QED
        BY <1>3, <1>4, <3>1 DEF Places
    <2>2. \A k \in 1..Len(u) : d + k \in 1..m /\ args[d + k] = u[k]
      BY <1>3, <1>4 DEF Places
    <2>3. Len(u) = 1 \/ Len(u) = 2
      BY <1>7
    <2> HIDE DEF d, u
    <2>4. d + 1 \in 1..m /\ args[d + 1] = u[1]
      BY <2>2, <2>3
    <2>5. Len(u) = 2 => d + 2 \in 1..m /\ args[d + 2] = u[2] /\ d + 2 = (d + 1) + 1
      BY <2>1, <2>2
    <2> QED
      BY <2>1, <2>3, <2>4, <2>5 DEF d, u
  <1>9. \A p \in 1..m : \E i \in 1..n : p = First(i) \/ (Len(units[i]) = 2 /\ p = E[i])
    <2> SUFFICES ASSUME NEW p \in 1..m
                 PROVE  \E i \in 1..n : p = First(i) \/ (Len(units[i]) = 2 /\ p = E[i])
      OBVIOUS
    <2>1. PICK i \in 1..n : p - E[i - 1] \in 1..Len(units[i])
      BY <1>3, <1>4 DEF Places
    <2>2. E[i - 1] \in Nat
      <3>1. i - 1 \in 0..n
        OBVIOUS
      <3> QED
        BY <1>4, <3>1
    <2>3. Len(units[i]) = 1 \/ Len(units[i]) = 2
      BY <1>7
    <2>4. Len(units[i]) = 2 => E[i] = First(i) + 1
      BY <1>8
    <2> DEFINE d == E[i - 1]
               l == Len(units[i])
               e == E[i]
    <2>5. p = d + 1 \/ (l = 2 /\ p = e)
      <3>1. d \in Nat /\ (l = 1 \/ l = 2) /\ (l = 2 => e = (d + 1) + 1) /\ p - d \in 1..l
        BY <2>1, <2>2, <2>3, <2>4
      <3> HIDE DEF d, l, e
      <3> QED
        BY <3>1, <1>4
    <2> QED
      BY <2>5
  <1>10. \A p \in 1..m : r[p] = "flag" <=> \E i \in Other : p = First(i)
    <2>1. ASSUME NEW i \in Other PROVE r[First(i)] = "flag"
      BY <1>5 DEF ReadAs
    <2>2. ASSUME NEW p \in 1..m, r[p] = "flag" PROVE \E i \in Other : p = First(i)
      <3>1. PICK i \in 1..n : p = First(i) \/ (Len(units[i]) = 2 /\ p = E[i])
        BY <1>9
      <3> HIDE DEF First
      <3>2. units[i] # Target
        <4> SUFFICES ASSUME units[i] = Target PROVE FALSE
          OBVIOUS
        <4>1. Len(units[i]) = 1
          BY <1>7
        <4>2. p = E[i]
          BY <1>8, <3>1, <4>1
        <4> QED
          BY <1>5, <2>2, <4>2 DEF ReadAs
      <3>3. Len(units[i]) = 2 => r[E[i]] = "value"
        BY <1>5, <3>2 DEF ReadAs
      <3> QED
        BY <2>2, <3>1, <3>2, <3>3
    <2> QED
      BY <2>1, <2>2
  <1>11. \A p \in 1..m : r[p] = "positional" <=>
           \E i \in 1..n : units[i] = Target /\ ~Open(units, i) /\ p = E[i]
    <2>1. ASSUME NEW i \in 1..n, units[i] = Target, ~Open(units, i) PROVE r[E[i]] = "positional"
      BY <1>5, <2>1 DEF ReadAs
    <2>2. ASSUME NEW p \in 1..m, r[p] = "positional"
          PROVE  \E i \in 1..n : units[i] = Target /\ ~Open(units, i) /\ p = E[i]
      <3>1. PICK i \in 1..n : p = First(i) \/ (Len(units[i]) = 2 /\ p = E[i])
        BY <1>9
      <3>2. units[i] = Target
        <4> SUFFICES ASSUME units[i] # Target PROVE FALSE
          OBVIOUS
        <4>1. r[First(i)] = "flag" /\ (Len(units[i]) = 2 => r[E[i]] = "value")
          BY <1>5 DEF ReadAs
        <4> HIDE DEF First
        <4> QED
          BY <2>2, <3>1, <4>1
      <3> HIDE DEF First
      <3>3. Len(units[i]) = 1
        BY <1>7, <3>2
      <3>4. p = E[i]
        BY <1>8, <3>1, <3>3
      <3>5. ~Open(units, i)
        BY <1>5, <2>2, <3>2, <3>4 DEF ReadAs
      <3> QED
        BY <3>2, <3>4, <3>5
    <2> QED
      BY <2>1, <2>2
  <1>12. flags = {units[i][1] : i \in Other}
    <2>1. flags = {args[p] : p \in {q \in 1..m : r[q] = "flag"}}
      BY <1>4
    <2>2. {q \in 1..m : r[q] = "flag"} = {First(i) : i \in Other}
      <3>1. \A i \in Other : First(i) \in 1..m
        BY <1>8
      <3> HIDE DEF First, Other
      <3> QED
        BY <1>10, <3>1
    <2>3. \A i \in Other : args[First(i)] = units[i][1]
      BY <1>8
    <2> HIDE DEF First, Other, flags
    <2> QED
      BY <2>1, <2>2, <2>3
  <1>13. ~Lacking
    <2> SUFFICES ASSUME Lacking PROVE FALSE
      OBVIOUS
    <2>1. n \in 1..n
      OBVIOUS
    <2>2. m # 0
      BY <1>8, <2>1, <1>4
    <2>3. Last(r) = r[E[n]] /\ Last(args) = args[E[n]]
      BY <1>4, <1>6 DEF Last, m
    <2>4. r[E[n]] = "flag" /\ args[E[n]] \in TakesValue
      BY <2>3
    <2>5. units[n] # Target /\ Len(units[n]) # 2
      BY <1>5, <2>1, <2>4 DEF ReadAs
    <2>6. Len(units[n]) = 1 /\ units[n][1] \notin TakesValue
      BY <1>7, <2>1, <2>5
    <2>7. args[E[n]] = units[n][1]
      BY <1>8, <2>1, <2>6
    <2> QED
      BY <2>4, <2>6, <2>7
  \* The target is read as one, or not.
  <1> DEFINE Seen(i) == units[i] = Target /\ ~Open(units, i)
  <1>14. \A i, j \in 1..n : units[i] = Target /\ units[j] = Target => i = j
    OBVIOUS
  <1>15. (Swallowed \/ Target \notin set) <=> ~ \E i \in 1..n : Seen(i)
    <2>1. Swallowed <=> \E j \in 1..n : units[j] = Target /\ Open(units, j)
      <3>1. ASSUME NEW i \in 1..(n - 1), Len(units[i]) = 1, units[i][1] \in MayTakeValue,
                   units[i + 1] = Target
            PROVE  \E j \in 1..n : units[j] = Target /\ Open(units, j)
        <4>1. i + 1 \in 1..n /\ (i + 1) - 1 = i /\ i + 1 > 1
          OBVIOUS
        <4> QED
          BY <3>1, <4>1 DEF Open
      <3>2. ASSUME NEW j \in 1..n, units[j] = Target, Open(units, j) PROVE Swallowed
        <4>1. j - 1 \in 1..(n - 1) /\ (j - 1) + 1 = j
          BY <3>2 DEF Open
        <4> QED
          BY <1>1, <3>2, <4>1 DEF Open
      <3> QED
        BY <1>1, <3>1, <3>2
    <2>2. Target \in set <=> \E j \in 1..n : units[j] = Target
      BY <1>1
    <2> HIDE DEF Swallowed, set
    <2> QED
      BY <1>14, <2>1, <2>2
  <1>16. IF \E i \in 1..n : Seen(i) THEN \E i \in 1..n : Seen(i) /\ positional = {E[i]}
         ELSE positional = {}
    <2>1. positional = {p \in 1..m : r[p] = "positional"}
      BY <1>4
    <2>2. \A i \in 1..n : E[i] \in 1..m
      BY <1>8
    <2>3. \A p \in 1..m : r[p] = "positional" <=> \E i \in 1..n : Seen(i) /\ p = E[i]
      BY <1>11
    <2>4. \A i, j \in 1..n : Seen(i) /\ Seen(j) => i = j
      BY <1>14
    <2> HIDE DEF First, Seen, positional
    <2>5. ASSUME NEW i \in 1..n, Seen(i) PROVE positional = {E[i]}
      <3>1. \A p \in 1..m : r[p] = "positional" <=> p = E[i]
        BY <2>3, <2>4, <2>5
      <3> QED
        BY <2>1, <2>2, <3>1
    <2>6. ASSUME ~ \E i \in 1..n : Seen(i) PROVE positional = {}
      BY <2>1, <2>3, <2>6
    <2> QED
      BY <2>5, <2>6
  <1>17. (Cardinality(positional) = 1 <=> \E i \in 1..n : Seen(i))
    <2> HIDE DEF Seen, positional
    <2> QED
      BY <1>16, FS_EmptySet, FS_Singleton
  <1>18. (\E i \in 1..n : Seen(i)) => args[Max(positional)] = Target[1]
    <2> SUFFICES ASSUME \E i \in 1..n : Seen(i) PROVE args[Max(positional)] = Target[1]
      OBVIOUS
    <2>1. PICK i \in 1..n : Seen(i) /\ positional = {E[i]}
      BY <1>16
    <2>2. E[i] \in Nat /\ args[E[i]] = Target[1]
      <3>1. Len(units[i]) = 1 /\ units[i] = Target
        BY <1>7, <2>1
      <3>2. i \in 0..n
        OBVIOUS
      <3> HIDE DEF First
      <3> QED
        BY <1>4, <1>8, <3>1, <3>2
    <2>3. Max({E[i]}) = E[i]
      <3> DEFINE x == E[i]
      <3>1. x \in Nat
        BY <2>2
      <3> HIDE DEF x
      <3>2. {x} \in SUBSET Int /\ x \in {x} /\ \A y \in {x} : y <= x
        BY <3>1
      <3>3. Max({x}) = x
        BY <3>2, MaxIs
      <3> QED
        BY <3>3 DEF x
    <2> QED
      BY <2>1, <2>2, <2>3
  \* Which flags there are.
  <1>19. (\E u \in set \ {Target} : u[1] \notin {"-d", "-p", "-tcp", "-brute"})
           <=> ~ (flags \subseteq Implemented)
    <2>1. Implemented = {"-d", "-p", "-tcp", "-brute"}
      BY DEF Implemented
    <2>2. ASSUME NEW u \in set \ {Target}, u[1] \notin Implemented PROVE ~ (flags \subseteq Implemented)
      <3>1. PICK i \in 1..n : units[i] = u
        BY <1>1, <2>2
      <3>2. u[1] \in flags
        BY <1>12, <2>2, <3>1
      <3> QED
        BY <2>2, <3>2
    <2>3. ASSUME NEW f \in flags, f \notin Implemented
          PROVE  \E u \in set \ {Target} : u[1] \notin Implemented
      <3>1. PICK i \in Other : f = units[i][1]
        BY <1>12, <2>3
      <3>2. units[i] \in set \ {Target}
        BY <1>1, <3>1
      <3> QED
        BY <2>3, <3>1, <3>2
    <2> HIDE DEF flags, set
    <2> QED
      BY <2>1, <2>2, <2>3
  <1>20. set = {Target} <=> flags = {} 
    <2>1. 1 \in 1..n
      OBVIOUS
    <2> HIDE DEF flags
    <2>2. flags = {} <=> \A i \in 1..n : units[i] = Target
      BY <1>12
    <2> QED
      BY <1>1, <2>1, <2>2
  <1>21. ASSUME NEW f, f \notin Word PROVE Flag(f) <=> f \in flags
    <2>1. \A i \in 1..n : units[i][1] = f => i \in Other
      BY <1>7, <1>21
    <2> HIDE DEF flags
    <2> QED
      BY <1>1, <1>12, <2>1
  \* And what they take.
  <1>22. ASSUME \E i \in 1..n : Seen(i), NEW f, f \notin Word PROVE ValueOf(f) = Value(f)
    <2>1. CASE ~ Flag(f)
      <3>1. f \notin flags
        BY <1>21, <1>22, <2>1
      <3>2. PlacesOf(f) = {}
        BY <3>1
      <3> QED
        BY <2>1, <3>2
    <2>2. CASE Flag(f)
      <3>1. PICK i \in 1..n : units[i][1] = f
        BY <1>1, <2>2
      <3>2. i \in Other /\ \A j \in 1..n : units[j][1] = f => j = i
        BY <1>7, <1>22, <3>1
      <3> DEFINE u == units[i]
                 p == First(i)
      <3>3. PlacesOf(f) = {p}
        <4>1. p \in 1..m /\ r[p] = "flag" /\ args[p] = f
          BY <1>8, <1>10, <3>1, <3>2
        <4>2. ASSUME NEW q \in 1..m, r[q] = "flag", args[q] = f PROVE q = p
          <5>1. PICK j \in Other : q = First(j)
            BY <1>10, <4>2
          <5>2. units[j][1] = f
            BY <1>8, <4>2, <5>1
          <5> QED
            BY <3>2, <5>1, <5>2
        <4> HIDE DEF p, First
        <4> QED
          BY <1>4, <4>1, <4>2
      <3>4. p \in Nat /\ Next1(f) = p + 1
        <4>1. p \in Nat
          BY <1>4, <1>8
        <4> HIDE DEF p
        <4>2. Max({p}) = p
          BY <4>1, MaxIs
        <4> QED
          BY <3>3, <4>1, <4>2
      <3>5. Value(f) = Tail(u)
        <4>1. u \in set /\ u[1] = f
          BY <1>1, <3>1
        <4>2. \A v \in set : v[1] = f => v = u
          BY <1>1, <3>2
        <4> HIDE DEF set, u
        <4>3. (CHOOSE v \in set : v[1] = f) = u
          BY <4>1, <4>2
        <4> QED
          BY <2>2, <4>3
      <3>6. ValueOf(f) = IF p + 1 \in 1..m /\ r[p + 1] = "value" THEN <<args[p + 1]>> ELSE <<>>
        <4> HIDE DEF p
        <4>1. PlacesOf(f) # {}
          BY <3>3
        <4> HIDE DEF PlacesOf
        <4> QED
          BY <1>4, <3>4, <4>1
      <3>7. CASE Len(u) = 2
        <4>1. E[i] = p + 1 /\ args[E[i]] = u[2] /\ E[i] \in 1..m
          BY <1>8, <3>7
        <4>2. r[E[i]] = "value"
          BY <1>5, <3>2, <3>7 DEF ReadAs
        <4>3. Tail(u) = <<u[2]>>
          BY <1>7, <3>7, ShortTails
        <4> HIDE DEF p, u
        <4> QED
          BY <3>5, <3>6, <4>1, <4>2, <4>3
      <3>8. CASE Len(u) = 1
        <4>1. E[i] = p
          BY <1>8, <3>8
        <4>2. Tail(u) = <<>>
          BY <1>7, <3>8, ShortTails
        <4>3. ASSUME p + 1 \in 1..m PROVE r[p + 1] # "value"
          <5>1. i # n
            BY <1>4, <3>4, <4>1, <4>3
          <5>2. i + 1 \in 1..n /\ (i + 1) - 1 = i
            BY <5>1
          <5>3. First(i + 1) = p + 1
            BY <4>1, <5>2
          <5>4. CASE units[i + 1] = Target
            <6>1. Len(units[i + 1]) = 1
              BY <1>7, <5>2, <5>4
            <6>2. E[i + 1] = p + 1
              BY <1>8, <5>2, <5>3, <6>1
            <6>3. ~Open(units, i + 1)
              BY <1>14, <1>22, <5>2, <5>4
            <6> QED
              BY <1>5, <5>2, <5>4, <6>2, <6>3 DEF ReadAs
          <5>5. CASE units[i + 1] # Target
            <6>1. r[First(i + 1)] = "flag"
              BY <1>5, <5>2, <5>5 DEF ReadAs
            <6> QED
              BY <5>3, <6>1
          <5> QED
            BY <5>4, <5>5
        <4> HIDE DEF p, u
        <4> QED
          BY <3>5, <3>6, <4>2, <4>3
      <3> QED
        BY <1>7, <3>7, <3>8
    <2> QED
      BY <2>1, <2>2
  <1>23. \A f \in Implemented : f \notin Word
    BY UnitsAssumption
  <1>24. ParseScanArgs(args) =
           IF \/ ~(flags \subseteq Implemented \union NotYet) \/ Lacking
              \/ Cardinality(positional) # 1
              \/ flags \intersect NotYet # {} \/ flags \intersect Implemented = {}
           THEN ScanRefused
           ELSE [ok |-> TRUE, target |-> args[Max(positional)],
                 discover |-> "-d" \in flags, allPorts |-> "-p" \in flags,
                 brute |-> "-brute" \in flags, wordlist |-> ValueOf("-brute"),
                 tcp |-> "-tcp" \in flags, spec |-> ValueOf("-tcp")]
    BY Zenon DEF ParseScanArgs, r
  <1> DEFINE Refuse == \/ Swallowed \/ Target \notin set
                       \/ \E u \in set \ {Target} : u[1] \notin {"-d", "-p", "-tcp", "-brute"}
                       \/ set = {Target}
             Seeing == \E i \in 1..n : Seen(i)
             Known == flags \subseteq Implemented
  <1>25. Refuse <=> ~Seeing \/ ~Known \/ flags = {}
    <2> HIDE DEF Swallowed, set, Seen, flags
    <2> QED
      BY <1>15, <1>19, <1>20
  <1>26. Implemented \intersect NotYet = {}
    BY DEF Implemented, NotYet
  <1>27. {"-d", "-p", "-brute", "-tcp"} \subseteq Implemented
    BY DEF Implemented
  <1>28. ASSUME Refuse PROVE ParseScanArgs(args) = ScanRefused
    <2>1. ~Seeing \/ ~Known \/ flags = {}
      BY <1>25, <1>28
    <2> HIDE DEF flags, positional, Lacking, Seeing, ValueOf, Refuse
    <2>2. \/ ~(flags \subseteq Implemented \union NotYet) \/ Cardinality(positional) # 1
          \/ flags \intersect NotYet # {} \/ flags \intersect Implemented = {}
      BY <1>17, <2>1 DEF Seeing
    <2> QED
      BY <1>24, <2>2
  <1>29. ASSUME ~Refuse
         PROVE  ParseScanArgs(args) =
                  [ok |-> TRUE, target |-> Target[1], discover |-> Flag("-d"),
                   allPorts |-> Flag("-p"), brute |-> Flag("-brute"),
                   wordlist |-> Value("-brute"), tcp |-> Flag("-tcp"), spec |-> Value("-tcp")]
    <2>1. Seeing /\ Known /\ flags # {}
      BY <1>25, <1>29
    <2>2. args[Max(positional)] = Target[1]
      BY <1>18, <2>1
    <2>3. /\ "-d" \in flags <=> Flag("-d")
          /\ "-p" \in flags <=> Flag("-p")
          /\ "-brute" \in flags <=> Flag("-brute")
          /\ "-tcp" \in flags <=> Flag("-tcp")
      <3> HIDE DEF flags, Flag
      <3> QED
        BY <1>21, <1>23, <1>27
    <2>4. ValueOf("-brute") = Value("-brute") /\ ValueOf("-tcp") = Value("-tcp")
      <3> HIDE DEF ValueOf, Value
      <3> QED
        BY <1>22, <1>23, <1>27, <2>1
    <2> HIDE DEF flags, positional, Lacking, Seeing, ValueOf, Refuse, Flag, Value
    <2>5. ~ \/ ~(flags \subseteq Implemented \union NotYet) \/ Lacking
            \/ Cardinality(positional) # 1
            \/ flags \intersect NotYet # {} \/ flags \intersect Implemented = {}
      BY <1>13, <1>17, <1>26, <2>1 DEF Seeing
    <2>6. ParseScanArgs(args) =
            [ok |-> TRUE, target |-> args[Max(positional)],
             discover |-> "-d" \in flags, allPorts |-> "-p" \in flags,
             brute |-> "-brute" \in flags, wordlist |-> ValueOf("-brute"),
             tcp |-> "-tcp" \in flags, spec |-> ValueOf("-tcp")]
      BY <1>24, <2>5
    <2>7. /\ ("-d" \in flags) = Flag("-d")
          /\ ("-p" \in flags) = Flag("-p")
          /\ ("-brute" \in flags) = Flag("-brute")
          /\ ("-tcp" \in flags) = Flag("-tcp")
      <3>1. \A f : Flag(f) \in BOOLEAN
        BY DEF Flag
      <3> QED
        BY <2>3, <3>1
    <2> QED
      BY <2>2, <2>4, <2>6, <2>7, Zenon
  <1> QED
    BY <1>28, <1>29, Zenon DEF args

\* The words of a scan mean the same in whatever order their units stand, but for a
\* target that stands where a flag could take it for its value: then, and without a
\* target, without a flag or with one that is not available yet or unknown, nothing
\* is run. This is what parseScanArgs makes of any line of units of which no two begin
\* alike (scan.go:52-140).
THEOREM ArgsReadInAnyOrder == Spec => []ArgsAnyOrder
  <1>1. Init => ArgsAnyOrder
    BY DEF Init, ArgsAnyOrder
  <1>2. ArgsAnyOrder /\ [Next]_vars => ArgsAnyOrder'
    <2> SUFFICES ASSUME ArgsAnyOrder, [Next]_vars PROVE ArgsAnyOrder'
      OBVIOUS
    <2>1. CASE ReadScanArgs
      <3>0. PICK n \in 1..MaxUnits : \E units \in [1..n -> Units] :
              /\ \A i, j \in 1..n : i # j => units[i][1] # units[j][1]
              /\ call' = [op |-> "scanArgs", units |-> units]
              /\ result' = ParseScanArgs(FlattenSeq(units))
        BY <2>1 DEF ReadScanArgs, Called
      <3>1. PICK units \in [1..n -> Units] :
              /\ \A i, j \in 1..n : i # j => units[i][1] # units[j][1]
              /\ call' = [op |-> "scanArgs", units |-> units]
              /\ result' = ParseScanArgs(FlattenSeq(units))
        BY <3>0
      <3>2. n \in Nat /\ n # 0
        BY UnitsAssumption
      <3> DEFINE u == call'.units
                 set == ToSet(u)
                 Swallowed == \E i \in 1..(Len(u) - 1) :
                                /\ Len(u[i]) = 1 /\ u[i][1] \in MayTakeValue
                                /\ u[i + 1] = Target
                 Flag(f) == \E x \in set : x[1] = f
                 Value(f) == IF Flag(f) THEN Tail(CHOOSE x \in set : x[1] = f) ELSE <<>>
      <3>3. u = units
        BY <3>1
      <3> HIDE DEF u
      <3>4. /\ u \in [1..n -> Units] /\ result' = ParseScanArgs(FlattenSeq(u))
            /\ \A i, j \in 1..n : i # j => u[i][1] # u[j][1]
        BY <3>1, <3>3
      <3>5. IF \/ Swallowed \/ Target \notin set
               \/ \E x \in set \ {Target} : x[1] \notin {"-d", "-p", "-tcp", "-brute"}
               \/ set = {Target}
            THEN ParseScanArgs(FlattenSeq(u)) = ScanRefused
            ELSE ParseScanArgs(FlattenSeq(u)) =
                   [ok |-> TRUE, target |-> Target[1], discover |-> Flag("-d"),
                    allPorts |-> Flag("-p"), brute |-> Flag("-brute"),
                    wordlist |-> Value("-brute"), tcp |-> Flag("-tcp"),
                    spec |-> Value("-tcp")]
        BY <3>2, <3>4, ArgsRead
      <3> HIDE DEF set
      <3> QED
        BY <3>4, <3>5, Zenon DEF ArgsAnyOrder, u, set
    <2>2. CASE UNCHANGED <<call, result>>
      BY <2>2 DEF ArgsAnyOrder
    <2> QED
      BY <2>1, <2>2, Calls DEF ArgsAnyOrder
  <1> QED
    BY <1>1, <1>2, PTL DEF Spec

------------------------------------------------------------------------------
(* Configuration. *)

\* Five layers, of which the lowest mentions the setting: the highest that does.
LEMMA TopOfFive ==
  ASSUME NEW l1, NEW l2, NEW l3, NEW l4, NEW l5, NEW s \in DOMAIN l1
  PROVE  LET layers == <<l1, l2, l3, l4, l5>>
             top == Max({i \in DOMAIN layers : s \in DOMAIN layers[i]})
         IN  /\ top = IF s \in DOMAIN l5 THEN 5 ELSE IF s \in DOMAIN l4 THEN 4
                      ELSE IF s \in DOMAIN l3 THEN 3 ELSE IF s \in DOMAIN l2 THEN 2 ELSE 1
             /\ layers[top] = IF s \in DOMAIN l5 THEN l5 ELSE IF s \in DOMAIN l4 THEN l4
                              ELSE IF s \in DOMAIN l3 THEN l3 ELSE IF s \in DOMAIN l2 THEN l2 ELSE l1
  <1> DEFINE layers == <<l1, l2, l3, l4, l5>>
             S == {i \in DOMAIN layers : s \in DOMAIN layers[i]}
             m == IF s \in DOMAIN l5 THEN 5 ELSE IF s \in DOMAIN l4 THEN 4
                  ELSE IF s \in DOMAIN l3 THEN 3 ELSE IF s \in DOMAIN l2 THEN 2 ELSE 1
  <1>1. /\ DOMAIN layers = 1..5 /\ layers[1] = l1 /\ layers[2] = l2 /\ layers[3] = l3
        /\ layers[4] = l4 /\ layers[5] = l5
    OBVIOUS
  <1> HIDE DEF layers
  <1>2. S \in SUBSET Int /\ m \in S /\ \A y \in S : y <= m
    <2>1. 1..5 = {1, 2, 3, 4, 5}
      OBVIOUS
    <2> QED
      BY <1>1, <2>1
  <1>3. Max(S) = m
    <2> HIDE DEF S, m
    <2> QED
      BY <1>2, MaxIs
  <1> QED
    BY <1>1, <1>3 DEF layers

\* What a layer says when it is laid over another.
LEMMA OverGives ==
  ASSUME NEW layer, NEW below, NEW s
  PROVE  /\ s \in DOMAIN layer => Over(layer, below)[s] = layer[s]
         /\ s \in DOMAIN below /\ s \notin DOMAIN layer => Over(layer, below)[s] = below[s]
  BY DEF Over

LEMMA OverMentions ==
  ASSUME NEW layer, NEW below
  PROVE  DOMAIN Over(layer, below) = DOMAIN layer \union DOMAIN below
  BY DEF Over

LEMMA FourLayers ==
  ASSUME NEW a, NEW b, NEW c, NEW d, NEW s \in DOMAIN d
  PROVE  Over(a, Over(b, Over(c, d)))[s] =
           IF s \in DOMAIN a THEN a[s] ELSE IF s \in DOMAIN b THEN b[s]
           ELSE IF s \in DOMAIN c THEN c[s] ELSE d[s]
  BY DEF Over

Shortcut(line) ==
  IF line.verbose THEN [log_level |-> "debug"]
  ELSE IF line.quiet THEN [log_level |-> "error"] ELSE <<>>

\* -v and -q are a layer of their own, under the flags that have a value.
LEMMA FlagsOverShortcut ==
  ASSUME NEW line
  PROVE  /\ DOMAIN FlagLayer(line) = DOMAIN line.flags \union DOMAIN Shortcut(line)
         /\ \A s \in DOMAIN line.flags : FlagLayer(line)[s] = line.flags[s]
         /\ \A s \in DOMAIN Shortcut(line) :
              s \notin DOMAIN line.flags => FlagLayer(line)[s] = Shortcut(line)[s]
  <1> DEFINE debug == [log_level |-> "debug"]
             error == [log_level |-> "error"]
  <1>1. DOMAIN debug = {"log_level"} /\ DOMAIN error = {"log_level"} /\ DOMAIN <<>> = {}
    OBVIOUS
  <1>2. Shortcut(line) = IF line.verbose THEN debug ELSE IF line.quiet THEN error ELSE <<>>
    BY DEF Shortcut
  <1>3. FlagLayer(line) =
          IF "log_level" \in DOMAIN line.flags THEN line.flags
          ELSE IF line.verbose THEN Over(debug, line.flags)
          ELSE IF line.quiet THEN Over(error, line.flags)
          ELSE line.flags
    BY DEF FlagLayer
  <1> HIDE DEF debug, error
  <1>4. CASE "log_level" \in DOMAIN line.flags
    BY <1>1, <1>2, <1>3, <1>4
  <1>5. CASE "log_level" \notin DOMAIN line.flags /\ line.verbose
    <2>1. FlagLayer(line) = Over(debug, line.flags) /\ Shortcut(line) = debug
      BY <1>2, <1>3, <1>5
    <2>2. \A s \in DOMAIN line.flags : s \notin DOMAIN debug
      BY <1>1, <1>5
    <2>3. DOMAIN FlagLayer(line) = DOMAIN debug \union DOMAIN line.flags
      BY <2>1, OverMentions
    <2>4. ASSUME NEW s \in DOMAIN line.flags PROVE FlagLayer(line)[s] = line.flags[s]
      BY <2>1, <2>2, OverGives
    <2>5. ASSUME NEW s \in DOMAIN debug PROVE FlagLayer(line)[s] = debug[s]
      BY <2>1, OverGives
    <2> QED
      BY <2>1, <2>3, <2>4, <2>5
  <1>6. CASE "log_level" \notin DOMAIN line.flags /\ ~line.verbose /\ line.quiet
    <2>1. FlagLayer(line) = Over(error, line.flags) /\ Shortcut(line) = error
      BY <1>2, <1>3, <1>6
    <2>2. \A s \in DOMAIN line.flags : s \notin DOMAIN error
      BY <1>1, <1>6
    <2>3. DOMAIN FlagLayer(line) = DOMAIN error \union DOMAIN line.flags
      BY <2>1, OverMentions
    <2>4. ASSUME NEW s \in DOMAIN line.flags PROVE FlagLayer(line)[s] = line.flags[s]
      BY <2>1, <2>2, OverGives
    <2>5. ASSUME NEW s \in DOMAIN error PROVE FlagLayer(line)[s] = error[s]
      BY <2>1, OverGives
    <2> QED
      BY <2>1, <2>3, <2>4, <2>5
  <1>7. CASE ~line.verbose /\ ~line.quiet
    BY <1>1, <1>2, <1>3, <1>7
  <1> QED
    BY <1>4, <1>5, <1>6, <1>7

\* A configuration that was loaded has the file over the defaults, and the variables
\* over both.
LEMMA LoadLayers ==
  ASSUME NEW file, NEW env \in Envs, Load(file, env).ok
  PROVE  LET read == [s \in DOMAIN env |-> IF s \in EnvLists THEN SplitCSV(env[s]) ELSE env[s]] IN
         /\ file # Unreadable
         /\ \A s \in DOMAIN env : env[s] # NotANumber
         /\ Load(file, env).cfg = Over(read, Over(file, Default))
  <1> DEFINE f == MergeFile(Default, file)
             e == IF f.ok THEN ApplyEnv(f.cfg, env) ELSE ConfigFails
  <1>1. f.ok /\ e.ok /\ Load(file, env) = e
    BY DEF Load, ConfigFails
  <1>2. file # Unreadable /\ f = Configured(Over(file, Default))
    BY <1>1 DEF MergeFile, ConfigFails
  <1>3. e = ApplyEnv(Over(file, Default), env)
    BY <1>1, <1>2 DEF Configured
  <1>4. \A s \in DOMAIN env \intersect EnvParsed : env[s] # NotANumber
    BY <1>1, <1>3 DEF ApplyEnv, ConfigFails
  <1>5. \A s \in DOMAIN env : env[s] # NotANumber
    BY <1>4, InputsAssumption
  <1> QED
    BY <1>1, <1>2, <1>3, <1>4, <1>5 DEF ApplyEnv, Configured

LEMMA ExecuteRuns ==
  ASSUME NEW line, NEW file, NEW env, NEW logOpens, NEW succeeds,
         Execute(line, file, env, logOpens, succeeds).ran
  PROVE  LET cfg == Over(FlagLayer(line), Load(file, env).cfg) IN
         /\ Load(file, env).ok /\ Valid(cfg)
         /\ Execute(line, file, env, logOpens, succeeds).cfg = cfg
  <1> DEFINE result0 == Execute(line, file, env, logOpens, succeeds)
             loaded == Load(file, env)
             cfg == Over(FlagLayer(line), loaded.cfg)
  <1>1. \A code : Exit(code).ran = FALSE
    BY DEF Exit
  <1>2. loaded.ok /\ Valid(cfg) /\ \E code : result0 = Ran(code, cfg)
    BY <1>1 DEF Execute
  <1> QED
    BY <1>2 DEF Ran

LEMMA RunHasTopLayers ==
  ASSUME NEW line, NEW file, NEW env \in Envs, NEW logOpens, NEW succeeds,
         Execute(line, file, env, logOpens, succeeds).ran
  PROVE  LET result0 == Execute(line, file, env, logOpens, succeeds)
             layers == <<Default, file, env, Shortcut(line), line.flags>>
             Top(s) == Max({i \in DOMAIN layers : s \in DOMAIN layers[i]})
             Given(s) == LET given == layers[Top(s)][s] IN
                         IF s = "resolvers" /\ Top(s) = 3 THEN SplitCSV(given) ELSE given
         IN  /\ Valid(result0.cfg)
             /\ \A s \in DOMAIN Default : result0.cfg[s] = Given(s)
             /\ \A s \in DOMAIN env : env[s] # NotANumber
             /\ file # Unreadable
  <1> DEFINE result0 == Execute(line, file, env, logOpens, succeeds)
             read == [s \in DOMAIN env |-> IF s \in EnvLists THEN SplitCSV(env[s]) ELSE env[s]]
             layers == <<Default, file, env, Shortcut(line), line.flags>>
             Top(s) == Max({i \in DOMAIN layers : s \in DOMAIN layers[i]})
  <1>1. /\ Valid(result0.cfg) /\ file # Unreadable
        /\ \A s \in DOMAIN env : env[s] # NotANumber
        /\ result0.cfg = Over(FlagLayer(line), Over(read, Over(file, Default)))
    BY ExecuteRuns, LoadLayers
  <1>2. ASSUME NEW s \in DOMAIN Default
        PROVE  result0.cfg[s] = IF s = "resolvers" /\ Top(s) = 3
                                THEN SplitCSV(layers[Top(s)][s]) ELSE layers[Top(s)][s]
    <2> DEFINE top == Top(s)
    <2>1. /\ top = IF s \in DOMAIN line.flags THEN 5 ELSE IF s \in DOMAIN Shortcut(line) THEN 4
                   ELSE IF s \in DOMAIN env THEN 3 ELSE IF s \in DOMAIN file THEN 2 ELSE 1
          /\ layers[top] = IF s \in DOMAIN line.flags THEN line.flags
                           ELSE IF s \in DOMAIN Shortcut(line) THEN Shortcut(line)
                           ELSE IF s \in DOMAIN env THEN env
                           ELSE IF s \in DOMAIN file THEN file ELSE Default
      BY TopOfFive
    <2>2. DOMAIN read = DOMAIN env /\ \A x \in DOMAIN env :
            read[x] = IF x = "resolvers" THEN SplitCSV(env[x]) ELSE env[x]
      BY DEF EnvLists
    <2>3. /\ DOMAIN FlagLayer(line) = DOMAIN line.flags \union DOMAIN Shortcut(line)
          /\ s \in DOMAIN line.flags => FlagLayer(line)[s] = line.flags[s]
          /\ s \in DOMAIN Shortcut(line) /\ s \notin DOMAIN line.flags
               => FlagLayer(line)[s] = Shortcut(line)[s]
      BY FlagsOverShortcut
    <2> HIDE DEF top, read, layers, result0
    <2>4. result0.cfg[s] = IF s \in DOMAIN FlagLayer(line) THEN FlagLayer(line)[s]
                           ELSE IF s \in DOMAIN read THEN read[s]
                           ELSE IF s \in DOMAIN file THEN file[s] ELSE Default[s]
      BY <1>1, FourLayers
    <2>5. result0.cfg[s] = IF s = "resolvers" /\ top = 3
                           THEN SplitCSV(layers[top][s]) ELSE layers[top][s]
      BY <2>1, <2>2, <2>3, <2>4
    <2> QED
      BY <2>5 DEF top
  <1> QED
    BY <1>1, <1>2

\* A command runs only with a valid configuration in which the highest layer that
\* mentions a setting has decided it (config.go:1-5).
THEOREM TopLayersRun == Spec => []TopLayerRuns
  <1>1. Init => TopLayerRuns
    BY DEF Init, TopLayerRuns
  <1>2. TopLayerRuns /\ [Next]_vars => TopLayerRuns'
    <2> SUFFICES ASSUME TopLayerRuns, [Next]_vars PROVE TopLayerRuns'
      OBVIOUS
    <2>1. CASE RunCommand
      <3>1. PICK line \in Lines, file \in Files, env \in Envs, logOpens \in BOOLEAN,
                 succeeds \in BOOLEAN :
              /\ call' = [op |-> "execute", line |-> line, file |-> file, env |-> env]
              /\ result' = Execute(line, file, env, logOpens, succeeds)
        BY <2>1 DEF RunCommand, Called
      <3>2. call'.line = line /\ call'.file = file /\ call'.env = env
        BY <3>1
      <3> QED
        BY <3>1, <3>2, RunHasTopLayers DEF TopLayerRuns, Shortcut
    <2>2. CASE UNCHANGED <<call, result>>
      BY <2>2 DEF TopLayerRuns
    <2> QED
      BY <2>1, <2>2, Calls DEF TopLayerRuns
  <1> QED
    BY <1>1, <1>2, PTL DEF Spec

==============================================================================
