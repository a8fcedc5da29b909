---------------------------- MODULE ResolverProofs ----------------------------
(***************************************************************************)
(* The resolver's safety for any number of clients, servers, retries and   *)
(* answers, and any timeout.                                               *)
(*                                                                         *)
(* Each property is made inductive by saying, for every place a Query can  *)
(* be at, how far it has come: what it has sent (Sent), how long it has    *)
(* taken (OnTime), how old its answer is (Dated), which servers it has     *)
(* asked (Covers).  The resolvers are counted backwards from the index: a  *)
(* call that was alone has asked those at a distance of up to its          *)
(* attempts.                                                               *)
(***************************************************************************)
EXTENDS Resolver, FiniteSetTheorems, TLAPS

Before == {"idle", "cacheGet", "wait"}
Reply == [resp : Responses, born : Nat]

Types ==
  /\ reply \in [Client -> Reply \union {Nothing}]
  /\ packets \in [Client -> Nat] /\ tokens \in [Client -> Nat] /\ late \in [Client -> Nat]
  /\ alone \in [Client -> BOOLEAN] /\ DOMAIN result = Client

Sent(c) ==
  /\ pc[c] \in Before => attempt[c] = 0
  /\ pc[c] \in {"cacheGet", "wait"} => tokens[c] = 0
  /\ pc[c] \notin Before => tokens[c] = 1 /\ packets[c] <= attempt[c]
  /\ pc[c] = "pick" => attempt[c] < Attempts
  /\ pc[c] \in {"dial", "write"} => packets[c] < attempt[c]
  /\ tokens[c] \in {0, 1} /\ packets[c] <= Attempts
  /\ tokens[c] = 0 => packets[c] = 0

Late(c) == late[c] <= 1 /\ (c \notin done \/ pc[c] = "write" => late[c] = 0)

\* The deadline of an exchange is within a Timeout, and does not lie in the past.
Dated(c) ==
  /\ deadline[c] # 0 => now <= deadline[c] /\ deadline[c] <= now + Timeout
  /\ pc[c] \in {"write", "read"} => deadline[c] # 0
  /\ pc[c] = "dial" /\ BoundsDial => deadline[c] # 0
  /\ pc[c] \in Before \union {"pick", "failed", "cachePut"} => deadline[c] = 0
  /\ pc[c] = "dial" /\ ~BoundsDial => deadline[c] = 0
  /\ pc[c] \notin {"read", "cachePut"} => reply[c] = Nothing
  /\ reply[c] # Nothing => reply[c].born <= now
  /\ pc[c] = "read" /\ reply[c] # Nothing => deadline[c] <= reply[c].born + Timeout
  /\ pc[c] = "cachePut" => reply[c] # Nothing /\ now <= reply[c].born + Timeout

\* When the attempts so far have used up their timeouts.
Due(c) == granted[c] + attempt[c] * Timeout

OnTime(c) ==
  protocol # "tcp" =>
    /\ pc[c] \in {"pick", "failed", "cachePut"} => now <= Due(c)
    /\ pc[c] = "dial" /\ protocol = "udp" => now + Timeout <= Due(c)
    /\ pc[c] \notin Before => granted[c] <= now
    /\ deadline[c] # 0 => deadline[c] <= Due(c)

\* How many steps the index is behind server s: the last one picked is 1 behind.
Distance(s) == IF s < next THEN next - s ELSE next - s + NServers

Covers(c) ==
  /\ alone[c]
     /\ attempt[c] > 0 => \A s \in Server : Distance(s) <= attempt[c] => s \in tried[c]
  /\ Outcome(c, "exhausted") => pc[c] = "idle"

CacheDated ==
  \A k \in Key : cache[k] # Nothing =>
    cache[k].born <= now
       /\ cache[k].expires <= cache[k].born + Timeout + EntryTTL(cache[k].resp)

ServedInTime ==
  \A c \in Client : Outcome(c, "cache") =>
    /\ result[c].resp \in Responses /\ result[c].age \in Nat
    /\ result[c].age <= Timeout + EntryTTL(result[c].resp)

IInv ==
  /\ TypeOK /\ Types
  /\ \A c \in Client : Sent(c) /\ Late(c) /\ Dated(c) /\ OnTime(c) /\ Covers(c)
  /\ CacheDated /\ ServedInTime /\ AloneCoversServers

------------------------------------------------------------------------------
(* The data. *)

LEMMA AttemptsType == Attempts \in Nat \ {0}
   /\ (Retries + 1 >= NServers => Attempts >= NServers)
  BY ResolverAssumption DEF Attempts

\* Nothing is neither a reply nor an entry: they have other fields.
LEMMA NothingIsNothing == Nothing \notin Reply /\ Nothing \notin Entry
  <1>1. DOMAIN Nothing = {"none"}
    BY DEF Nothing
  <1>2. \A r \in Reply : DOMAIN r = {"resp", "born"}
    BY DEF Reply
  <1>3. \A e \in Entry : DOMAIN e = {"resp", "born", "expires"}
    BY DEF Entry
  <1> QED
    BY <1>1, <1>2, <1>3

\* Of TTLs, if there are any, one is the least.
LEMMA LeastTTL ==
  ASSUME NEW S \in SUBSET Nat, S # {}
  PROVE  Min(S) \in S /\ \A y \in S : Min(S) <= y
  <1> DEFINE Below(x) == 0..(x - 1)
             T == {Below(x) : x \in S}
             Smaller == StrictSubsetOrdering(Nat)
  <1>1. T \subseteq FiniteSubsetsOf(Nat) /\ T # {}
    <2>1. ASSUME NEW x \in S PROVE Below(x) \in SUBSET Nat /\ IsFiniteSet(Below(x))
      BY FS_Interval
    <2> QED
      BY <2>1 DEF FiniteSubsetsOf
  <1>2. IsWellFoundedOn(Smaller, FiniteSubsetsOf(Nat))
    BY FS_StrictSubsetOrderingWellFounded
  <1>3. PICK I \in T : \A J \in T : ~ (<<J, I>> \in Smaller)
    <2> HIDE DEF T, Smaller
    <2> QED
      BY <1>1, <1>2, WFMin
  <1>4. PICK x \in S : I = Below(x)
    OBVIOUS
  <1>5. ASSUME NEW y \in S, y < x PROVE FALSE
    <2>1. Below(y) \subseteq Below(x) /\ y \in Below(x) /\ y \notin Below(y)
      BY <1>5
    <2>2. Below(y) \in SUBSET Nat /\ Below(x) \in SUBSET Nat
      OBVIOUS
    <2>3. <<Below(y), Below(x)>> \in Smaller
      BY <2>1, <2>2 DEF StrictSubsetOrdering
    <2> QED
      BY <1>3, <1>4, <2>3
  <1>6. \A y \in S : x <= y
    BY <1>5
  <1> QED
    BY <1>6 DEF Min

\* What an entry may live for is a time, and no longer than any record in it.
LEMMA TTLBounds ==
  ASSUME NEW r \in Responses
  PROVE  /\ r.ttls = {} /\ r.soa = NoSOA => EntryTTL(r) = DefaultTTL
         /\ r.ttls = {} /\ r.soa # NoSOA => EntryTTL(r) = r.soa
         /\ r.ttls # {} => \A ttl \in r.ttls : EntryTTL(r) <= ttl
         /\ EntryTTL(r) \in Nat
  <1>1. r \in Response /\ r.ttls \in SUBSET Nat /\ r.soa \in Nat \union {NoSOA}
    BY ResolverAssumption DEF Response
  <1>2. r.ttls # {} => Min(r.ttls) \in r.ttls /\ \A y \in r.ttls : Min(r.ttls) <= y
    BY <1>1, LeastTTL
  <1> HIDE DEF Response
  <1> QED
    BY <1>1, <1>2, ResolverAssumption DEF EntryTTL

\* The index goes round.
LEMMA IndexGoesRound ==
  ASSUME next \in Server
  PROVE  NextIndex \in Server /\ NextIndex = IF next = NServers - 1 THEN 0 ELSE next + 1
  BY ResolverAssumption DEF NextIndex, Server

\* Whatever a Query returns is something.
LEMMA ResultIsSomething ==
  /\ \A x : [from |-> x] # Nothing
  /\ \A x, y, z : [from |-> x, resp |-> y, age |-> z] # Nothing
  <1>1. DOMAIN Nothing = {"none"}
    BY DEF Nothing
  <1>2. /\ \A x : DOMAIN [from |-> x] = {"from"}
        /\ \A x, y, z : DOMAIN [from |-> x, resp |-> y, age |-> z] = {"from", "resp", "age"}
    OBVIOUS
  <1> QED
    BY <1>1, <1>2

LEMMA InitInv == Init => IInv
  BY ResolverAssumption, AttemptsType, NothingIsNothing
  DEF Init, IInv, TypeOK, Types, Sent, Late, Dated, OnTime, Covers, CacheDated,
     ServedInTime,
      AloneCoversServers, Outcome, Server, Places, Before, Due, BoundsDial

------------------------------------------------------------------------------
(* Every step preserves every part. *)

\* The index stays in range and an entry that is put is well formed.
LEMMA TypeStep ==
  ASSUME IInv, [Next]_vars
  PROVE  TypeOK'
  <1> USE ResolverAssumption, AttemptsType, NothingIsNothing
        DEF IInv, TypeOK, Types, Places, Entry, Reply
  <1>1. ASSUME NEW c \in Client, CacheGet(c) PROVE TypeOK'
    BY <1>1 DEF CacheGet, Cached, Return, Continue, Goto, shared, history
  <1>2. ASSUME NEW c \in Client, WaitGranted(c) PROVE TypeOK'
    BY <1>2 DEF WaitGranted, Continue, Goto, shared, history
  <1>3. ASSUME NEW c \in Client, WaitCancelled(c) PROVE TypeOK'
    BY <1>3 DEF WaitCancelled, Return, Goto, shared, history
  <1>4. ASSUME NEW c \in Client, PickResolver(c) PROVE TypeOK'
    <2>1. next' \in Server
      BY <1>4, IndexGoesRound DEF PickResolver
    <2>2. pc' \in [Client -> Places] /\ deadline' \in [Client -> Nat]
      BY <1>4 DEF PickResolver, Goto
    <2>3. attempt' \in [Client -> 0..Attempts] /\ tried' \in [Client -> SUBSET Server]
      BY <1>4 DEF PickResolver, Sent, Before
    <2> QED
      BY <1>4, <2>1, <2>2, <2>3 DEF PickResolver
  <1>5. ASSUME NEW c \in Client, Dial(c) PROVE TypeOK'
    BY <1>5 DEF Dial, DeadlineAfterDial, Continue, Goto, shared, history
  <1>6. ASSUME NEW c \in Client, Write(c) PROVE TypeOK'
    BY <1>6 DEF Write, Continue, Goto, shared, history
  <1>7. ASSUME NEW c \in Client, Read(c) PROVE TypeOK'
    BY <1>7 DEF Read, Continue, Goto, shared, history
  <1>8. ASSUME NEW c \in Client, ExchangeFails(c) PROVE TypeOK'
    BY <1>8 DEF ExchangeFails, Goto, shared, history
  <1>9. ASSUME NEW c \in Client, AfterFailure(c) PROVE TypeOK'
    <2>1. pc' \in [Client -> Places] /\ attempt' \in [Client -> 0..Attempts]
      BY <1>9 DEF AfterFailure, Return, Continue, Goto
    <2>2. UNCHANGED <<protocol, next, cache, now, key, deadline, done, tried, granted>>
      BY <1>9 DEF AfterFailure, shared, history
    <2> QED
      BY <2>1, <2>2
  <1>10. ASSUME NEW c \in Client, CachePut(c) PROVE TypeOK'
    <2>1. reply[c] \in Reply
      BY <1>10 DEF CachePut, Dated
    <2>2. EntryTTL(reply[c].resp) \in Nat
      BY <2>1, TTLBounds
    <2>3. [resp |-> reply[c].resp, born |-> reply[c].born,
       expires |-> now + EntryTTL(reply[c].resp)] \in Entry
      BY <2>1, <2>2
    <2> HIDE DEF Entry, Reply
    <2>4. cache' \in [Key -> Entry \union {Nothing}]
      BY <1>10, <2>3 DEF CachePut
    <2>5. pc' \in [Client -> Places] /\ attempt' \in [Client -> 0..Attempts]
      BY <1>10 DEF CachePut, Return, Goto
    <2>6. UNCHANGED <<protocol, next, now, key, deadline, done, tried, granted>>
      BY <1>10 DEF CachePut, history
    <2> QED
      BY <2>4, <2>5, <2>6
  <1>11. ASSUME NEW c \in Client, Cancel(c) PROVE TypeOK'
    BY <1>11 DEF Cancel, shared, history
  <1>12. ASSUME NEW c \in Client, NEW k \in Key, Ask(c, k) PROVE TypeOK'
    BY <1>12 DEF Ask, Goto, shared
  <1>13. ASSUME NEW c \in Client, NEW r \in Responses, Answer(c, r) PROVE TypeOK'
    BY <1>13 DEF Answer, shared, history
  <1>14. CASE Tick
    BY <1>14 DEF Tick, Computing, shared, history
  <1>15. CASE UNCHANGED vars
    BY <1>15 DEF vars
  <1> QED
    BY <1>1, <1>2, <1>3, <1>4, <1>5, <1>6, <1>7, <1>8, <1>9, <1>10, <1>11, <1>12, <1>13,
       <1>14, <1>15 DEF Next, ClientStep

\* Answers keep their form, and the counts remain counts.
LEMMA TypesStep ==
  ASSUME IInv, [Next]_vars
  PROVE  Types'
  <1> USE ResolverAssumption, AttemptsType, NothingIsNothing DEF IInv, TypeOK, Types, Reply
  <1>1. ASSUME NEW c \in Client, CacheGet(c) PROVE Types'
    BY <1>1 DEF CacheGet, Cached, Return, Continue, Goto, shared, history
  <1>2. ASSUME NEW c \in Client, WaitGranted(c) PROVE Types'
    BY <1>2 DEF WaitGranted, Continue, Goto, shared, history
  <1>3. ASSUME NEW c \in Client, WaitCancelled(c) PROVE Types'
    BY <1>3 DEF WaitCancelled, Return, Goto, shared, history
  <1>4. ASSUME NEW c \in Client, PickResolver(c) PROVE Types'
    BY <1>4 DEF PickResolver, Goto, shared, history
  <1>5. ASSUME NEW c \in Client, Dial(c) PROVE Types'
    BY <1>5 DEF Dial, DeadlineAfterDial, Continue, Goto, shared, history
  <1>6. ASSUME NEW c \in Client, Write(c) PROVE Types'
    BY <1>6 DEF Write, Continue, Goto, shared, history
  <1>7. ASSUME NEW c \in Client, Read(c) PROVE Types'
    BY <1>7 DEF Read, Continue, Goto, shared, history
  <1>8. ASSUME NEW c \in Client, ExchangeFails(c) PROVE Types'
    BY <1>8 DEF ExchangeFails, Goto, shared, history
  <1>9. ASSUME NEW c \in Client, AfterFailure(c) PROVE Types'
    BY <1>9 DEF AfterFailure, Return, Continue, Goto, shared, history
  <1>10. ASSUME NEW c \in Client, CachePut(c) PROVE Types'
    BY <1>10 DEF CachePut, Return, Goto, shared, history
  <1>11. ASSUME NEW c \in Client, Cancel(c) PROVE Types'
    BY <1>11 DEF Cancel, shared, history
  <1>12. ASSUME NEW c \in Client, NEW k \in Key, Ask(c, k) PROVE Types'
    BY <1>12 DEF Ask, Goto, shared
  <1>13. ASSUME NEW c \in Client, NEW r \in Responses, Answer(c, r) PROVE Types'
    BY <1>13 DEF Answer, shared, history
  <1>14. CASE Tick
    BY <1>14 DEF Tick, Computing, shared, history
  <1>15. CASE UNCHANGED vars
    BY <1>15 DEF vars
  <1> QED
    BY <1>1, <1>2, <1>3, <1>4, <1>5, <1>6, <1>7, <1>8, <1>9, <1>10, <1>11, <1>12, <1>13,
       <1>14, <1>15 DEF Next, ClientStep

\* A packet needs an attempt, and the attempts need the one token.
LEMMA SentStep ==
  ASSUME IInv, [Next]_vars, NEW d \in Client
  PROVE  Sent(d)'
  <1> USE ResolverAssumption, AttemptsType, NothingIsNothing
        DEF IInv, TypeOK, Types, Sent, Before, Places
  <1>1. ASSUME NEW c \in Client, CacheGet(c) PROVE Sent(d)'
    BY <1>1 DEF CacheGet, Cached, Return, Continue, Goto, shared, history
  <1>2. ASSUME NEW c \in Client, WaitGranted(c) PROVE Sent(d)'
    BY <1>2 DEF WaitGranted, Continue, Goto, shared, history
  <1>3. ASSUME NEW c \in Client, WaitCancelled(c) PROVE Sent(d)'
    BY <1>3 DEF WaitCancelled, Return, Goto, shared, history
  <1>4. ASSUME NEW c \in Client, PickResolver(c) PROVE Sent(d)'
    BY <1>4 DEF PickResolver, Goto, shared, history
  <1>5. ASSUME NEW c \in Client, Dial(c) PROVE Sent(d)'
    BY <1>5 DEF Dial, DeadlineAfterDial, Continue, Goto, shared, history
  <1>6. ASSUME NEW c \in Client, Write(c) PROVE Sent(d)'
    BY <1>6 DEF Write, Continue, Goto, shared, history
  <1>7. ASSUME NEW c \in Client, Read(c) PROVE Sent(d)'
    BY <1>7 DEF Read, Continue, Goto, shared, history
  <1>8. ASSUME NEW c \in Client, ExchangeFails(c) PROVE Sent(d)'
    BY <1>8 DEF ExchangeFails, Goto, shared, history
  <1>9. ASSUME NEW c \in Client, AfterFailure(c) PROVE Sent(d)'
    BY <1>9 DEF AfterFailure, Return, Continue, Goto, shared, history
  <1>10. ASSUME NEW c \in Client, CachePut(c) PROVE Sent(d)'
    BY <1>10 DEF CachePut, Return, Goto, shared, history
  <1>11. ASSUME NEW c \in Client, Cancel(c) PROVE Sent(d)'
    BY <1>11 DEF Cancel, shared, history
  <1>12. ASSUME NEW c \in Client, NEW k \in Key, Ask(c, k) PROVE Sent(d)'
    BY <1>12 DEF Ask, Goto, shared
  <1>13. ASSUME NEW c \in Client, NEW r \in Responses, Answer(c, r) PROVE Sent(d)'
    BY <1>13 DEF Answer, shared, history
  <1>14. CASE Tick
    BY <1>14 DEF Tick, Computing, shared, history
  <1>15. CASE UNCHANGED vars
    BY <1>15 DEF vars
  <1> QED
    BY <1>1, <1>2, <1>3, <1>4, <1>5, <1>6, <1>7, <1>8, <1>9, <1>10, <1>11, <1>12, <1>13,
       <1>14, <1>15 DEF Next, ClientStep

\* Only a write that the cancel overtook is late, and no dial follows it.
LEMMA LateStep ==
  ASSUME IInv, [Next]_vars, NEW d \in Client
  PROVE  Late(d)'
  <1> USE ResolverAssumption, AttemptsType, NothingIsNothing
        DEF IInv, TypeOK, Types, Late, Places
  <1>1. ASSUME NEW c \in Client, CacheGet(c) PROVE Late(d)'
    BY <1>1 DEF CacheGet, Cached, Return, Continue, Goto, shared, history
  <1>2. ASSUME NEW c \in Client, WaitGranted(c) PROVE Late(d)'
    BY <1>2 DEF WaitGranted, Continue, Goto, shared, history
  <1>3. ASSUME NEW c \in Client, WaitCancelled(c) PROVE Late(d)'
    BY <1>3 DEF WaitCancelled, Return, Goto, shared, history
  <1>4. ASSUME NEW c \in Client, PickResolver(c) PROVE Late(d)'
    BY <1>4 DEF PickResolver, Goto, shared, history
  <1>5. ASSUME NEW c \in Client, Dial(c) PROVE Late(d)'
    BY <1>5 DEF Dial, DeadlineAfterDial, Continue, Goto, shared, history
  <1>6. ASSUME NEW c \in Client, Write(c) PROVE Late(d)'
    BY <1>6 DEF Write, Continue, Goto, shared, history
  <1>7. ASSUME NEW c \in Client, Read(c) PROVE Late(d)'
    BY <1>7 DEF Read, Continue, Goto, shared, history
  <1>8. ASSUME NEW c \in Client, ExchangeFails(c) PROVE Late(d)'
    BY <1>8 DEF ExchangeFails, Goto, shared, history
  <1>9. ASSUME NEW c \in Client, AfterFailure(c) PROVE Late(d)'
    BY <1>9 DEF AfterFailure, Return, Continue, Goto, shared, history
  <1>10. ASSUME NEW c \in Client, CachePut(c) PROVE Late(d)'
    BY <1>10 DEF CachePut, Return, Goto, shared, history
  <1>11. ASSUME NEW c \in Client, Cancel(c) PROVE Late(d)'
    BY <1>11 DEF Cancel, shared, history
  <1>12. ASSUME NEW c \in Client, NEW k \in Key, Ask(c, k) PROVE Late(d)'
    BY <1>12 DEF Ask, Goto, shared
  <1>13. ASSUME NEW c \in Client, NEW r \in Responses, Answer(c, r) PROVE Late(d)'
    BY <1>13 DEF Answer, shared, history
  <1>14. CASE Tick
    BY <1>14 DEF Tick, Computing, shared, history
  <1>15. CASE UNCHANGED vars
    BY <1>15 DEF vars
  <1> QED
    BY <1>1, <1>2, <1>3, <1>4, <1>5, <1>6, <1>7, <1>8, <1>9, <1>10, <1>11, <1>12, <1>13,
       <1>14, <1>15 DEF Next, ClientStep

\* The clock passes no deadline, so no answer outlives its exchange by much.
LEMMA DatedStep ==
  ASSUME IInv, [Next]_vars, NEW d \in Client
  PROVE  Dated(d)'
  <1> USE ResolverAssumption, AttemptsType, NothingIsNothing
        DEF IInv, TypeOK, Types, Dated, Before, Places, BoundsDial, Reply
  <1>1. ASSUME NEW c \in Client, CacheGet(c) PROVE Dated(d)'
    BY <1>1 DEF CacheGet, Cached, Return, Continue, Goto, shared, history
  <1>2. ASSUME NEW c \in Client, WaitGranted(c) PROVE Dated(d)'
    BY <1>2 DEF WaitGranted, Continue, Goto, shared, history
  <1>3. ASSUME NEW c \in Client, WaitCancelled(c) PROVE Dated(d)'
    BY <1>3 DEF WaitCancelled, Return, Goto, shared, history
  <1>4. ASSUME NEW c \in Client, PickResolver(c) PROVE Dated(d)'
    BY <1>4 DEF PickResolver, Goto, shared, history
  <1>5. ASSUME NEW c \in Client, Dial(c) PROVE Dated(d)'
    BY <1>5 DEF Dial, DeadlineAfterDial, Continue, Goto, shared, history
  <1>6. ASSUME NEW c \in Client, Write(c) PROVE Dated(d)'
    BY <1>6 DEF Write, Continue, Goto, shared, history
  <1>7. ASSUME NEW c \in Client, Read(c) PROVE Dated(d)'
    BY <1>7 DEF Read, Continue, Goto, shared, history
  <1>8. ASSUME NEW c \in Client, ExchangeFails(c) PROVE Dated(d)'
    BY <1>8 DEF ExchangeFails, Goto, shared, history
  <1>9. ASSUME NEW c \in Client, AfterFailure(c) PROVE Dated(d)'
    BY <1>9 DEF AfterFailure, Return, Continue, Goto, shared, history
  <1>10. ASSUME NEW c \in Client, CachePut(c) PROVE Dated(d)'
    BY <1>10 DEF CachePut, Return, Goto, shared, history
  <1>11. ASSUME NEW c \in Client, Cancel(c) PROVE Dated(d)'
    BY <1>11 DEF Cancel, shared, history
  <1>12. ASSUME NEW c \in Client, NEW k \in Key, Ask(c, k) PROVE Dated(d)'
    BY <1>12 DEF Ask, Goto, shared
  <1>13. ASSUME NEW c \in Client, NEW r \in Responses, Answer(c, r) PROVE Dated(d)'
    BY <1>13 DEF Answer, shared, history
  <1>14. CASE Tick
    BY <1>14 DEF Tick, Computing, shared, history
  <1>15. CASE UNCHANGED vars
    BY <1>15 DEF vars
  <1> QED
    BY <1>1, <1>2, <1>3, <1>4, <1>5, <1>6, <1>7, <1>8, <1>9, <1>10, <1>11, <1>12, <1>13,
       <1>14, <1>15 DEF Next, ClientStep

\* Each attempt adds one timeout to what the call may take, and takes no more.
LEMMA OnTimeStep ==
  ASSUME IInv, [Next]_vars, NEW d \in Client
  PROVE  OnTime(d)'
  <1> USE ResolverAssumption, AttemptsType, NothingIsNothing
        DEF IInv, TypeOK, Types, OnTime, Dated, Sent, Before, Places, Due, BoundsDial
  <1>1. ASSUME NEW c \in Client, CacheGet(c) PROVE OnTime(d)'
    BY <1>1 DEF CacheGet, Cached, Return, Continue, Goto, shared, history
  <1>2. ASSUME NEW c \in Client, WaitGranted(c) PROVE OnTime(d)'
    BY <1>2 DEF WaitGranted, Continue, Goto, shared, history
  <1>3. ASSUME NEW c \in Client, WaitCancelled(c) PROVE OnTime(d)'
    BY <1>3 DEF WaitCancelled, Return, Goto, shared, history
  <1>4. ASSUME NEW c \in Client, PickResolver(c) PROVE OnTime(d)'
    BY <1>4 DEF PickResolver, Goto, shared, history
  <1>5. ASSUME NEW c \in Client, Dial(c) PROVE OnTime(d)'
    BY <1>5 DEF Dial, DeadlineAfterDial, Continue, Goto, shared, history
  <1>6. ASSUME NEW c \in Client, Write(c) PROVE OnTime(d)'
    BY <1>6 DEF Write, Continue, Goto, shared, history
  <1>7. ASSUME NEW c \in Client, Read(c) PROVE OnTime(d)'
    BY <1>7 DEF Read, Continue, Goto, shared, history
  <1>8. ASSUME NEW c \in Client, ExchangeFails(c) PROVE OnTime(d)'
    BY <1>8 DEF ExchangeFails, Goto, shared, history
  <1>9. ASSUME NEW c \in Client, AfterFailure(c) PROVE OnTime(d)'
    BY <1>9 DEF AfterFailure, Return, Continue, Goto, shared, history
  <1>10. ASSUME NEW c \in Client, CachePut(c) PROVE OnTime(d)'
    BY <1>10 DEF CachePut, Return, Goto, shared, history
  <1>11. ASSUME NEW c \in Client, Cancel(c) PROVE OnTime(d)'
    BY <1>11 DEF Cancel, shared, history
  <1>12. ASSUME NEW c \in Client, NEW k \in Key, Ask(c, k) PROVE OnTime(d)'
    BY <1>12 DEF Ask, Goto, shared
  <1>13. ASSUME NEW c \in Client, NEW r \in Responses, Answer(c, r) PROVE OnTime(d)'
    BY <1>13 DEF Answer, shared, history
  <1>14. CASE Tick
    BY <1>14 DEF Tick, Computing, shared, history
  <1>15. CASE UNCHANGED vars
    BY <1>15 DEF vars
  <1> QED
    BY <1>1, <1>2, <1>3, <1>4, <1>5, <1>6, <1>7, <1>8, <1>9, <1>10, <1>11, <1>12, <1>13,
       <1>14, <1>15 DEF Next, ClientStep

\* A call that is alone asks the servers in the order of the index; one that is not
\* alone claims nothing.
LEMMA CoversStep ==
  ASSUME IInv, [Next]_vars, NEW d \in Client
  PROVE  Covers(d)'
  <1> USE ResolverAssumption, AttemptsType, NothingIsNothing
        DEF IInv, TypeOK, Types, Covers, Sent, Before, Places, Outcome, Distance
  <1>1. ASSUME NEW c \in Client, CacheGet(c) PROVE Covers(d)'
    <2>1. CASE d # c
      BY <1>1, <2>1 DEF CacheGet, Cached, Return, Continue, Goto, shared, history
    <2>2. CASE d = c
      BY <1>1, <2>2, ResultIsSomething
        DEF CacheGet, Cached, Return, Continue, Goto, shared, history
    <2> QED
      BY <2>1, <2>2
  <1>2. ASSUME NEW c \in Client, WaitGranted(c) PROVE Covers(d)'
    BY <1>2 DEF WaitGranted, Continue, Goto, shared, history
  <1>3. ASSUME NEW c \in Client, WaitCancelled(c) PROVE Covers(d)'
    BY <1>3 DEF WaitCancelled, Return, Goto, shared, history
  <1>4. ASSUME NEW c \in Client, PickResolver(c) PROVE Covers(d)'
    <2>1. next \in Server /\ next' = NextIndex
       /\ (next' = IF next = NServers - 1 THEN 0 ELSE next + 1)
      BY <1>4, IndexGoesRound DEF PickResolver
    <2>2. CASE d = c
      <3>1. /\ attempt'[d] = attempt[d] + 1 /\ tried'[d] = tried[d] \union {next}
            /\ alone'[d] = alone[d] /\ pc[d] = "pick" /\ pc'[d] = "dial" /\ result' = result
        BY <1>4, <2>2 DEF PickResolver, Goto
      <3>2. attempt[d] = 0 \/ \A s \in Server : alone[d]
         /\ Distance(s) <= attempt[d] => s \in tried[d]
        BY DEF Distance
      <3>3. \A s \in Server : s = next \/ Distance(s)' = Distance(s) + 1
        BY <2>1 DEF Distance, Server
      <3>4. \A s \in Server : Distance(s) \in Nat \ {0}
        BY <2>1 DEF Distance, Server
      <3>5. \A s \in Server : alone[d] /\ Distance(s)' <= attempt'[d] => s \in tried'[d]
        BY <3>1, <3>2, <3>3, <3>4
      <3> QED
        BY <3>1, <3>5
    <2>3. CASE d # c
      <3>1. /\ attempt'[d] = attempt[d] /\ tried'[d] = tried[d] /\ pc'[d] = pc[d]
         /\ result' = result
        BY <1>4, <2>3 DEF PickResolver, Goto
      <3>2. alone'[d] => attempt'[d] = 0
        BY <1>4, <2>3, <3>1 DEF PickResolver
      <3>3. Outcome(d, "exhausted")' => pc'[d] = "idle"
        BY <3>1
      <3> QED
        BY <3>2, <3>3
    <2> QED
      BY <2>2, <2>3
  <1>5. ASSUME NEW c \in Client, Dial(c) PROVE Covers(d)'
    BY <1>5 DEF Dial, DeadlineAfterDial, Continue, Goto, shared, history
  <1>6. ASSUME NEW c \in Client, Write(c) PROVE Covers(d)'
    BY <1>6 DEF Write, Continue, Goto, shared, history
  <1>7. ASSUME NEW c \in Client, Read(c) PROVE Covers(d)'
    BY <1>7 DEF Read, Continue, Goto, shared, history
  <1>8. ASSUME NEW c \in Client, ExchangeFails(c) PROVE Covers(d)'
    BY <1>8 DEF ExchangeFails, Goto, shared, history
  <1>9. ASSUME NEW c \in Client, AfterFailure(c) PROVE Covers(d)'
    <2>1. CASE d # c
      BY <1>9, <2>1 DEF AfterFailure, Return, Continue, Goto, shared, history
    <2>2. CASE d = c
      BY <1>9, <2>2, ResultIsSomething
        DEF AfterFailure, Return, Continue, Goto, shared, history
    <2> QED
      BY <2>1, <2>2
  <1>10. ASSUME NEW c \in Client, CachePut(c) PROVE Covers(d)'
    BY <1>10 DEF CachePut, Return, Goto, shared, history
  <1>11. ASSUME NEW c \in Client, Cancel(c) PROVE Covers(d)'
    BY <1>11 DEF Cancel, shared, history
  <1>12. ASSUME NEW c \in Client, NEW k \in Key, Ask(c, k) PROVE Covers(d)'
    BY <1>12 DEF Ask, Goto, shared
  <1>13. ASSUME NEW c \in Client, NEW r \in Responses, Answer(c, r) PROVE Covers(d)'
    BY <1>13 DEF Answer, shared, history
  <1>14. CASE Tick
    BY <1>14 DEF Tick, Computing, shared, history
  <1>15. CASE UNCHANGED vars
    BY <1>15 DEF vars
  <1> QED
    BY <1>1, <1>2, <1>3, <1>4, <1>5, <1>6, <1>7, <1>8, <1>9, <1>10, <1>11, <1>12, <1>13,
       <1>14, <1>15 DEF Next, ClientStep

\* An entry is put within one timeout of its answer.
LEMMA CacheDatedStep ==
  ASSUME IInv, [Next]_vars
  PROVE  CacheDated'
  <1> USE ResolverAssumption, AttemptsType, NothingIsNothing
        DEF IInv, TypeOK, Types, CacheDated, Dated, Places, Reply, Entry
  <1>1. ASSUME NEW c \in Client, CacheGet(c) PROVE CacheDated'
    BY <1>1 DEF CacheGet, Cached, Return, Continue, Goto, shared, history
  <1>2. ASSUME NEW c \in Client, WaitGranted(c) PROVE CacheDated'
    BY <1>2 DEF WaitGranted, Continue, Goto, shared, history
  <1>3. ASSUME NEW c \in Client, WaitCancelled(c) PROVE CacheDated'
    BY <1>3 DEF WaitCancelled, Return, Goto, shared, history
  <1>4. ASSUME NEW c \in Client, PickResolver(c) PROVE CacheDated'
    BY <1>4 DEF PickResolver, Goto, shared, history
  <1>5. ASSUME NEW c \in Client, Dial(c) PROVE CacheDated'
    BY <1>5 DEF Dial, DeadlineAfterDial, Continue, Goto, shared, history
  <1>6. ASSUME NEW c \in Client, Write(c) PROVE CacheDated'
    BY <1>6 DEF Write, Continue, Goto, shared, history
  <1>7. ASSUME NEW c \in Client, Read(c) PROVE CacheDated'
    BY <1>7 DEF Read, Continue, Goto, shared, history
  <1>8. ASSUME NEW c \in Client, ExchangeFails(c) PROVE CacheDated'
    BY <1>8 DEF ExchangeFails, Goto, shared, history
  <1>9. ASSUME NEW c \in Client, AfterFailure(c) PROVE CacheDated'
    BY <1>9 DEF AfterFailure, Return, Continue, Goto, shared, history
  <1>10. ASSUME NEW c \in Client, CachePut(c) PROVE CacheDated'
    <2>1. /\ reply[c] \in Reply /\ reply[c].born <= now /\ now <= reply[c].born + Timeout
      BY <1>10 DEF CachePut
    <2>2. EntryTTL(reply[c].resp) \in Nat
      BY <2>1, TTLBounds
    <2> DEFINE e == [resp |-> reply[c].resp, born |-> reply[c].born,
                     expires |-> now + EntryTTL(reply[c].resp)]
    <2>3. e.born <= now /\ e.expires <= e.born + Timeout + EntryTTL(e.resp)
      BY <2>1, <2>2
    <2>4. cache' = [cache EXCEPT ![key[c]] = e] /\ now' = now
      BY <1>10 DEF CachePut
    <2> HIDE DEF e
    <2> QED
      BY <2>3, <2>4
  <1>11. ASSUME NEW c \in Client, Cancel(c) PROVE CacheDated'
    BY <1>11 DEF Cancel, shared, history
  <1>12. ASSUME NEW c \in Client, NEW k \in Key, Ask(c, k) PROVE CacheDated'
    BY <1>12 DEF Ask, Goto, shared
  <1>13. ASSUME NEW c \in Client, NEW r \in Responses, Answer(c, r) PROVE CacheDated'
    BY <1>13 DEF Answer, shared, history
  <1>14. CASE Tick
    BY <1>14 DEF Tick, Computing, shared, history
  <1>15. CASE UNCHANGED vars
    BY <1>15 DEF vars
  <1> QED
    BY <1>1, <1>2, <1>3, <1>4, <1>5, <1>6, <1>7, <1>8, <1>9, <1>10, <1>11, <1>12, <1>13,
       <1>14, <1>15 DEF Next, ClientStep

\* What the cache serves has not expired.
LEMMA ServedStep ==
  ASSUME IInv, [Next]_vars
  PROVE  ServedInTime'
  <1> USE ResolverAssumption, AttemptsType, NothingIsNothing
        DEF IInv, TypeOK, Types, ServedInTime, CacheDated, Outcome, Entry
  <1>1. ASSUME NEW c \in Client, CacheGet(c) PROVE ServedInTime'
    <2>1. ASSUME NEW d \in Client, d # c, Outcome(d, "cache")'
          PROVE  result'[d] = result[d] /\ Outcome(d, "cache")
      BY <1>1, <2>1 DEF CacheGet, Return, Continue, Goto
    <2>2. ASSUME Outcome(c, "cache")', Cached(key[c])
          PROVE  /\ result'[c].resp \in Responses /\ result'[c].age \in Nat
                 /\ result'[c].age <= Timeout + EntryTTL(result'[c].resp)
      <3> DEFINE e == cache[key[c]]
      <3>1. /\ e \in Entry /\ e.born <= now /\ now <= e.expires
            /\ e.expires <= e.born + Timeout + EntryTTL(e.resp)
        BY <2>2 DEF Cached
      <3>2. EntryTTL(e.resp) \in Nat
        BY <3>1, TTLBounds
      <3>3. result'[c] = [from |-> "cache", resp |-> e.resp, age |-> now - e.born]
        BY <1>1, <2>2 DEF CacheGet, Return
      <3> HIDE DEF e
      <3> QED
        BY <3>1, <3>2, <3>3
    <2>3. ~Cached(key[c]) => result' = result
      BY <1>1 DEF CacheGet, Continue
    <2> QED
      BY <2>1, <2>2, <2>3
  <1>2. ASSUME NEW c \in Client, WaitGranted(c) PROVE ServedInTime'
    BY <1>2 DEF WaitGranted, Continue, Goto, shared, history
  <1>3. ASSUME NEW c \in Client, WaitCancelled(c) PROVE ServedInTime'
    BY <1>3 DEF WaitCancelled, Return, Goto, shared, history
  <1>4. ASSUME NEW c \in Client, PickResolver(c) PROVE ServedInTime'
    BY <1>4 DEF PickResolver, Goto, shared, history
  <1>5. ASSUME NEW c \in Client, Dial(c) PROVE ServedInTime'
    BY <1>5 DEF Dial, DeadlineAfterDial, Continue, Goto, shared, history
  <1>6. ASSUME NEW c \in Client, Write(c) PROVE ServedInTime'
    BY <1>6 DEF Write, Continue, Goto, shared, history
  <1>7. ASSUME NEW c \in Client, Read(c) PROVE ServedInTime'
    BY <1>7 DEF Read, Continue, Goto, shared, history
  <1>8. ASSUME NEW c \in Client, ExchangeFails(c) PROVE ServedInTime'
    BY <1>8 DEF ExchangeFails, Goto, shared, history
  <1>9. ASSUME NEW c \in Client, AfterFailure(c) PROVE ServedInTime'
    BY <1>9 DEF AfterFailure, Return, Continue, Goto, shared, history
  <1>10. ASSUME NEW c \in Client, CachePut(c) PROVE ServedInTime'
    BY <1>10 DEF CachePut, Return, Goto, shared, history
  <1>11. ASSUME NEW c \in Client, Cancel(c) PROVE ServedInTime'
    BY <1>11 DEF Cancel, shared, history
  <1>12. ASSUME NEW c \in Client, NEW k \in Key, Ask(c, k) PROVE ServedInTime'
    BY <1>12 DEF Ask, Goto, shared
  <1>13. ASSUME NEW c \in Client, NEW r \in Responses, Answer(c, r) PROVE ServedInTime'
    BY <1>13 DEF Answer, shared, history
  <1>14. CASE Tick
    BY <1>14 DEF Tick, Computing, shared, history
  <1>15. CASE UNCHANGED vars
    BY <1>15 DEF vars
  <1> QED
    BY <1>1, <1>2, <1>3, <1>4, <1>5, <1>6, <1>7, <1>8, <1>9, <1>10, <1>11, <1>12, <1>13,
       <1>14, <1>15 DEF Next, ClientStep

\* A call gives up only with all its attempts made.
LEMMA AloneStep ==
  ASSUME IInv, [Next]_vars
  PROVE  AloneCoversServers'
  <1> USE ResolverAssumption, AttemptsType, NothingIsNothing DEF IInv, TypeOK, Types,
     AloneCoversServers, Covers, Sent, Outcome, Before, Server, Distance
  <1>1. ASSUME NEW c \in Client, CacheGet(c) PROVE AloneCoversServers'
    <2>1. ASSUME NEW d \in Client, d # c, Outcome(d, "exhausted")'
          PROVE  result'[d] = result[d] /\ Outcome(d, "exhausted")
      BY <1>1, <2>1 DEF CacheGet, Return, Continue, Goto
    <2>2. ~Outcome(c, "exhausted")'
      BY <1>1 DEF CacheGet, Return, Continue, Goto
    <2>3. UNCHANGED <<alone, tried>>
      BY <1>1 DEF CacheGet, history
    <2> QED
      BY <2>1, <2>2, <2>3
  <1>2. ASSUME NEW c \in Client, WaitGranted(c) PROVE AloneCoversServers'
    BY <1>2 DEF WaitGranted, Continue, Goto, shared, history
  <1>3. ASSUME NEW c \in Client, WaitCancelled(c) PROVE AloneCoversServers'
    BY <1>3 DEF WaitCancelled, Return, Goto, shared, history
  <1>4. ASSUME NEW c \in Client, PickResolver(c) PROVE AloneCoversServers'
    BY <1>4 DEF PickResolver, Goto, shared, history
  <1>5. ASSUME NEW c \in Client, Dial(c) PROVE AloneCoversServers'
    BY <1>5 DEF Dial, DeadlineAfterDial, Continue, Goto, shared, history
  <1>6. ASSUME NEW c \in Client, Write(c) PROVE AloneCoversServers'
    BY <1>6 DEF Write, Continue, Goto, shared, history
  <1>7. ASSUME NEW c \in Client, Read(c) PROVE AloneCoversServers'
    BY <1>7 DEF Read, Continue, Goto, shared, history
  <1>8. ASSUME NEW c \in Client, ExchangeFails(c) PROVE AloneCoversServers'
    BY <1>8 DEF ExchangeFails, Goto, shared, history
  <1>9. ASSUME NEW c \in Client, AfterFailure(c) PROVE AloneCoversServers'
    <2>1. ASSUME NEW d \in Client, d # c, Outcome(d, "exhausted")'
          PROVE  result'[d] = result[d] /\ Outcome(d, "exhausted")
      BY <1>9, <2>1 DEF AfterFailure, Return, Continue, Goto
    <2>2. ASSUME Outcome(c, "exhausted")', alone[c], Retries + 1 >= NServers
          PROVE  tried[c] = Server
      <3>1. attempt[c] >= Attempts
        BY <1>9, <2>2 DEF AfterFailure, Return, Continue, Goto
      <3>2. \A s \in Server : Distance(s) <= NServers
        OBVIOUS
      <3>3. \A s \in Server : Distance(s) <= attempt[c]
        <4> HIDE DEF Distance, Server
        <4>1. NServers \in Nat /\ Attempts \in Nat /\ attempt[c] \in Nat
           /\ Attempts >= NServers
          BY <2>2
        <4>2. \A s \in Server : Distance(s) \in Int
          BY DEF Distance, Server
        <4> QED
          BY <3>1, <3>2, <4>1, <4>2
      <3>4. attempt[c] > 0
        BY <3>1
      <3> QED
        BY <2>2, <3>3, <3>4
    <2>3. UNCHANGED <<alone, tried>>
      BY <1>9 DEF AfterFailure, history
    <2> QED
      BY <2>1, <2>2, <2>3
  <1>10. ASSUME NEW c \in Client, CachePut(c) PROVE AloneCoversServers'
    BY <1>10 DEF CachePut, Return, Goto, shared, history
  <1>11. ASSUME NEW c \in Client, Cancel(c) PROVE AloneCoversServers'
    BY <1>11 DEF Cancel, shared, history
  <1>12. ASSUME NEW c \in Client, NEW k \in Key, Ask(c, k) PROVE AloneCoversServers'
    BY <1>12 DEF Ask, Goto, shared
  <1>13. ASSUME NEW c \in Client, NEW r \in Responses, Answer(c,
     r) PROVE AloneCoversServers'
    BY <1>13 DEF Answer, shared, history
  <1>14. CASE Tick
    BY <1>14 DEF Tick, Computing, shared, history
  <1>15. CASE UNCHANGED vars
    BY <1>15 DEF vars
  <1> QED
    BY <1>1, <1>2, <1>3, <1>4, <1>5, <1>6, <1>7, <1>8, <1>9, <1>10, <1>11, <1>12, <1>13,
       <1>14, <1>15 DEF Next, ClientStep

LEMMA StepInv == ASSUME IInv, [Next]_vars PROVE IInv'
  <1>1. TypeOK' /\ Types' /\ CacheDated' /\ ServedInTime' /\ AloneCoversServers'
    BY TypeStep, TypesStep, CacheDatedStep, ServedStep, AloneStep
  <1>2. ASSUME NEW d \in Client
        PROVE  Sent(d)' /\ Late(d)' /\ Dated(d)' /\ OnTime(d)' /\ Covers(d)'
    BY SentStep, LateStep, DatedStep, OnTimeStep, CoversStep
  <1> QED
    BY <1>1, <1>2 DEF IInv

LEMMA Invariance == Spec => []IInv
  BY InitInv, StepInv, PTL DEF Spec

------------------------------------------------------------------------------
(* The theorems. *)

\* The round-robin index stays in range, and no call makes more than its attempts,
\* however many goroutines share the resolver.
THEOREM TypeCorrect == Spec => []TypeOK
  <1>1. IInv => TypeOK
    BY DEF IInv
  <1> QED
    BY <1>1, Invariance, PTL

\* A call that gives up, and had the index to itself, has asked every resolver, for any
\* number of resolvers and retries and wherever the index stood.
THEOREM NoServerLeftOut == Spec => []AloneCoversServers
  <1>1. IInv => AloneCoversServers
    BY DEF IInv
  <1> QED
    BY <1>1, Invariance, PTL

\* However many calls a cancelled client makes, one packet at most leaves after the
\* cancel: the one whose socket was open.
THEOREM OneLatePacket == Spec => []CancelStopsSending
  <1>1. IInv => CancelStopsSending
    BY DEF IInv, Late, CancelStopsSending
  <1> QED
    BY <1>1, Invariance, PTL

\* The limiter's tokens bound the packets: no packet without one, and with one no
\* more than a call's attempts.
THEOREM TokensBoundPackets == Spec => []PacketsPerToken
  <1>1. ASSUME IInv, NEW c \in Client PROVE packets[c] <= tokens[c] * Attempts
    <2>1. CASE tokens[c] = 0
      BY <1>1, <2>1, AttemptsType DEF IInv, Sent
    <2>2. CASE tokens[c] = 1
      BY <1>1, <2>2, AttemptsType DEF IInv, Sent
    <2> QED
      BY <1>1, <2>1, <2>2 DEF IInv, Sent
  <1>2. IInv => PacketsPerToken
    BY <1>1 DEF PacketsPerToken
  <1> QED
    BY <1>2, Invariance, PTL

\* No race for the cache makes it serve an answer older than any of its records allows,
\* give or take the time of one exchange.
THEOREM ServedFresh == Spec => []CacheFresh
  <1>1. ASSUME IInv, NEW c \in Client, Outcome(c, "cache"), NEW r, r = result[c].resp
        PROVE  IF r.ttls # {} THEN \A life \in r.ttls : result[c].age <= life + Timeout
               ELSE result[c].age <= (IF r.soa = NoSOA THEN DefaultTTL ELSE r.soa) + Timeout
    <2>1. r \in Responses /\ result[c].age \in Nat /\ result[c].age <= Timeout + EntryTTL(r)
      BY <1>1 DEF IInv, ServedInTime
    <2>2. r.ttls \in SUBSET Nat
      BY <2>1, ResolverAssumption DEF Response
    <2> QED
      BY <2>1, <2>2, TTLBounds, ResolverAssumption
  <1>2. IInv => CacheFresh
    BY <1>1, Zenon DEF CacheFresh
  <1> QED
    BY <1>2, Invariance, PTL

\* Whatever its exchanges come to, a call has no more time than the timeouts of its
\* attempts add up to.
THEOREM NoCallOverruns == Spec => []CallBounded
  <1>1. ASSUME NEW a \in Nat, NEW b \in Nat, NEW t \in Nat, a <= b PROVE a * t <= b * t
    BY <1>1
  <1>2. ASSUME IInv, NEW c \in Client, protocol # "tcp",
               pc[c] \in {"pick", "dial", "write", "read", "failed", "cachePut"}
        PROVE  now - granted[c] <= Attempts * Timeout
    <2>1. /\ now \in Nat /\ granted[c] \in Nat /\ deadline[c] \in Nat /\ attempt[c] \in Nat
          /\ attempt[c] <= Attempts /\ Attempts \in Nat /\ Timeout \in Nat
          /\ protocol \in {"udp", "dot", "doh"}
      BY <1>2, AttemptsType, ResolverAssumption DEF IInv, TypeOK
    <2> DEFINE budget == attempt[c] * Timeout
    <2>2. budget \in Nat /\ budget <= Attempts * Timeout /\ Attempts * Timeout \in Nat
      BY <1>1, <2>1
    <2>3. now <= granted[c] + budget
      <3>1. CASE pc[c] \in {"pick", "failed", "cachePut"}
        BY <1>2, <3>1 DEF IInv, OnTime, Due
      <3>2. CASE pc[c] = "dial" /\ protocol = "udp"
        <4>1. now + Timeout <= granted[c] + budget
          BY <1>2, <3>2 DEF IInv, OnTime, Due
        <4> QED
          BY <2>1, <2>2, <4>1
      <3>3. CASE pc[c] \in {"write", "read"} \/ (pc[c] = "dial" /\ protocol # "udp")
        <4>1. deadline[c] # 0 /\ now <= deadline[c]
          BY <1>2, <2>1, <3>3 DEF IInv, Dated, BoundsDial
        <4>2. deadline[c] <= granted[c] + budget
          BY <1>2, <4>1 DEF IInv, OnTime, Due
        <4> QED
          BY <2>1, <2>2, <4>1, <4>2
      <3> QED
        BY <1>2, <3>1, <3>2, <3>3
    <2> HIDE DEF budget
    <2> QED
      BY <2>1, <2>2, <2>3
  <1>3. IInv => CallBounded
    BY <1>2 DEF CallBounded
  <1> QED
    BY <1>3, Invariance, PTL

==============================================================================
