------------------------------- MODULE Resolver ------------------------------
(***************************************************************************)
(* internal/dns/resolver.go: goroutines of a worker pool that share one    *)
(* Resolver and call Query.  A call looks in the cache, waits for one      *)
(* token of the limiter, then makes up to Retries+1 exchanges, each with   *)
(* the resolver that a round-robin index shared by all calls points at;    *)
(* the answer is put in the cache, whatever has happened to the cache      *)
(* meanwhile.  An exchange (transport.go) dials, writes the query and      *)
(* reads until its deadline; only the dial is sure to look at the ctx.     *)
(* Over udp and tcp the deadline is set after the dial, over dot and doh   *)
(* the dial is part of what it bounds.                                     *)
(*                                                                         *)
(* The limiter is taken for what module RateLimiter shows of it: a Wait    *)
(* ends with a token or with a cancelled ctx.  The network and the         *)
(* resolvers at its other end may lose, delay or refuse anything.          *)
(***************************************************************************)
EXTENDS Integers, FiniteSets, FiniteSetsExt

CONSTANTS Client,       \* goroutines, each with its own ctx
          Key,          \* cache keys: a name (case folded) and a type
          NServers,     \* len(cfg.Resolvers)
          Retries,      \* cfg.Retries
          Timeout,      \* cfg.TimeoutSeconds, in ticks
          Protocols,    \* values of cfg.Protocol that are looked at
          Responses,    \* what a resolver may answer, see Response
          NoSOA,        \* no SOA in the authority section
          DefaultTTL,   \* defaultNegativeTTL
          MaxTime,      \* bound: the clock stops here
          MaxQueries    \* bound: calls of Query

\* The parts of a Message that Query looks at: the rcode, the TTLs of the
\* records of the type asked for, and the minimum of the SOA.
Response == [rcode : {"NOERROR", "NXDOMAIN", "SERVFAIL"},
             ttls : SUBSET Nat, soa : Nat \union {NoSOA}]

ASSUME ResolverAssumption ==
  /\ NServers \in Nat \ {0} /\ Retries \in Int
  /\ Timeout \in Nat \ {0} /\ DefaultTTL \in Nat
  /\ MaxTime \in Nat /\ MaxQueries \in Nat
  /\ Responses \subseteq Response /\ Protocols \subseteq {"udp", "tcp", "dot", "doh"}

VARIABLES protocol,                    \* cfg.Protocol
          next, cache,                 \* the Resolver's fields under r.mu; next modulo NServers
          now,
          pc, key, attempt,            \* per client: the locals of Query
          deadline, reply, result,
          queries, done,               \* calls made by all; clients whose ctx is cancelled
          tried, alone,                \* history: resolvers this call picked; were all picks
                                       \* since its first one its own?
          packets, tokens, late,       \* history: packets and tokens of this call; packets
                                       \* after the cancel
          granted                      \* history: when this call had its token

shared == <<protocol, next, cache>>
history == <<tried, alone, packets, tokens, late, granted>>
vars == <<protocol, next, cache, now, pc, key, attempt, deadline, reply, result,
          queries, done, tried, alone, packets, tokens, late, granted>>

Server == 0..(NServers - 1)
Nothing == [none |-> TRUE]
Places == {"idle", "cacheGet", "wait", "pick", "dial", "write", "read", "failed", "cachePut"}

------------------------------------------------------------------------------
(* The code. *)

\* Exchanges of one Query: one and the retries, never none.
Attempts == IF Retries + 1 < 1 THEN 1 ELSE Retries + 1

\* Mutant: the TTL of the longest-lived record.
LongestTTL(r) ==
  IF r.ttls # {} THEN Max(r.ttls) ELSE IF r.soa = NoSOA THEN DefaultTTL ELSE r.soa

\* minTTL of the records, else the SOA minimum, else the constant.
EntryTTL(r) ==
  IF r.ttls # {} THEN Min(r.ttls) ELSE IF r.soa = NoSOA THEN DefaultTTL ELSE r.soa

Init ==
  /\ protocol \in Protocols /\ next = 0 /\ now = 0
  /\ cache = [k \in Key |-> Nothing]
  /\ pc = [c \in Client |-> "idle"]
  /\ key \in [Client -> Key]
  /\ attempt = [c \in Client |-> 0]
  /\ deadline = [c \in Client |-> 0]
  /\ reply = [c \in Client |-> Nothing]
  /\ result = [c \in Client |-> Nothing]
  /\ queries = 0
  /\ done = {}
  /\ tried = [c \in Client |-> {}]
  /\ alone = [c \in Client |-> TRUE]
  /\ packets = [c \in Client |-> 0] /\ tokens = [c \in Client |-> 0]
  /\ late = [c \in Client |-> 0] /\ granted = [c \in Client |-> 0]

Goto(c, place) == pc' = [pc EXCEPT ![c] = place]

\* Query returns to its caller and its locals are gone.
Return(c, r) ==
  /\ Goto(c, "idle")
  /\ result' = [result EXCEPT ![c] = r]
  /\ attempt' = [attempt EXCEPT ![c] = 0]
  /\ reply' = [reply EXCEPT ![c] = Nothing]

Continue(c, place) == Goto(c, place) /\ UNCHANGED <<result, attempt, reply>>

Ask(c, k) ==
  /\ pc[c] = "idle" /\ queries < MaxQueries
  /\ queries' = queries + 1
  /\ key' = [key EXCEPT ![c] = k]
  /\ result' = [result EXCEPT ![c] = Nothing]
  /\ tried' = [tried EXCEPT ![c] = {}]
  /\ alone' = [alone EXCEPT ![c] = TRUE]
  /\ packets' = [packets EXCEPT ![c] = 0] /\ tokens' = [tokens EXCEPT ![c] = 0]
  /\ Goto(c, "cacheGet")
  /\ granted' = [granted EXCEPT ![c] = 0]
  /\ UNCHANGED <<shared, now, attempt, deadline, reply, done, late>>

\* Mutant: an entry is used whatever its age.
CachedAtAll(k) == cache[k] # Nothing

\* An entry is good up to and including the instant it expires.
Cached(k) == cache[k] # Nothing /\ now <= cache[k].expires

CacheGet(c) ==
  /\ pc[c] = "cacheGet"
  /\ IF Cached(key[c])
     THEN Return(c, [from |-> "cache", resp |-> cache[key[c]].resp,
                     age |-> now - cache[key[c]].born])
     ELSE Continue(c, "wait")
  /\ UNCHANGED <<shared, now, key, deadline, queries, done, history>>

\* limit.Wait, once per Query: a token, or the ctx.  (A token that is there is
\* granted even when the ctx is already cancelled.)
WaitGranted(c) ==
  /\ pc[c] = "wait"
  /\ tokens' = [tokens EXCEPT ![c] = @ + 1]
  /\ granted' = [granted EXCEPT ![c] = now]
  /\ Continue(c, "pick")
  /\ UNCHANGED <<shared, now, key, deadline, queries, done, tried, alone, packets, late>>

WaitCancelled(c) ==
  /\ pc[c] = "wait" /\ c \in done
  /\ Return(c, [from |-> "ctx"])
  /\ UNCHANGED <<shared, now, key, deadline, queries, done, history>>

\* Mutant: an index that only moves when an exchange has succeeded.
NextAfterPick == next

\* Mutant: an index that is never brought back into range.
NextUnwrapped == next + 1

NextIndex == (next + 1) % NServers

\* The deadline is set when the exchange begins, the dial included: by deadlineFor over
\* dot, over doh by the client's timeout.  0 is none.
BoundsDial == protocol \in {"dot", "doh"}

\* pickResolver, under r.mu, and the beginning of the exchange.  Every call moves the
\* one index.
PickResolver(c) ==
  /\ pc[c] = "pick"
  /\ next' = NextIndex
  /\ attempt' = [attempt EXCEPT ![c] = @ + 1]
  /\ tried' = [tried EXCEPT ![c] = @ \union {next}]
  /\ alone' = [d \in Client |-> IF d = c THEN alone[c] ELSE alone[d] /\ attempt[d] = 0]
  /\ deadline' = [deadline EXCEPT ![c] = IF BoundsDial THEN now + Timeout ELSE 0]
  /\ Goto(c, "dial")
  /\ UNCHANGED <<protocol, cache, now, key, reply, result, queries, done, packets, tokens,
                 late, granted>>

\* Mutant: every exchange has its deadline after the dial.
DeadlineAfresh(c) == now + Timeout

DeadlineAfterDial(c) == IF BoundsDial THEN deadline[c] ELSE now + Timeout

\* Mutant: net.Dial, which knows no ctx.
DialRegardless(c) ==
  /\ pc[c] = "dial"
  /\ deadline' = [deadline EXCEPT ![c] = DeadlineAfterDial(c)]
  /\ Continue(c, "write")
  /\ UNCHANGED <<shared, now, key, queries, done, history>>

\* DialContext gives a connection, unless the ctx is done: at once over udp, otherwise
\* when the resolver has answered the handshakes.
Dial(c) ==
  /\ pc[c] = "dial" /\ c \notin done
  /\ deadline' = [deadline EXCEPT ![c] = DeadlineAfterDial(c)]
  /\ Continue(c, "write")
  /\ UNCHANGED <<shared, now, key, queries, done, history>>

\* The query leaves, with no further look at the ctx (over doh there may be one).
Write(c) ==
  /\ pc[c] = "write"
  /\ packets' = [packets EXCEPT ![c] = @ + 1]
  /\ late' = [late EXCEPT ![c] = IF c \in done THEN @ + 1 ELSE @]
  /\ Continue(c, "read")
  /\ UNCHANGED <<shared, now, key, deadline, queries, done, tried, alone, tokens, granted>>

\* Environment: the resolver answers; the answer may yet be lost or late.
Answer(c, r) ==
  /\ pc[c] = "read" /\ reply[c] = Nothing
  /\ reply' = [reply EXCEPT ![c] = [resp |-> r, born |-> now]]
  /\ UNCHANGED <<shared, now, pc, key, attempt, deadline, result, queries, done, history>>

\* The answer is read before the deadline.  Any rcode will do.
Read(c) ==
  /\ pc[c] = "read" /\ reply[c] # Nothing
  /\ deadline' = [deadline EXCEPT ![c] = 0]
  /\ Continue(c, "cachePut")
  /\ UNCHANGED <<shared, now, key, queries, done, history>>

\* Mutant: a socket without a deadline.
FailsButInRead(c) ==
  /\ pc[c] \in {"dial", "write"}
  /\ deadline' = [deadline EXCEPT ![c] = 0]
  /\ reply' = [reply EXCEPT ![c] = Nothing]
  /\ Goto(c, "failed")
  /\ UNCHANGED <<shared, now, key, attempt, result, queries, done, history>>

\* The exchange fails: the dial, the write, a reply that does not parse, an HTTP status
\* other than 200, the deadline, or the system's patience with a tcp dial.  Its
\* socket is closed, and an answer under way is lost with it.
ExchangeFails(c) ==
  /\ pc[c] \in {"dial", "write", "read"}
  /\ deadline' = [deadline EXCEPT ![c] = 0]
  /\ reply' = [reply EXCEPT ![c] = Nothing]
  /\ Goto(c, "failed")
  /\ UNCHANGED <<shared, now, key, attempt, result, queries, done, history>>

\* Mutant: one attempt too many.
AfterOneMore(c) ==
  /\ pc[c] = "failed"
  /\ IF c \in done THEN Return(c, [from |-> "ctx"])
     ELSE IF attempt[c] > Attempts THEN Return(c, [from |-> "exhausted"])
     ELSE Continue(c, "pick")
  /\ UNCHANGED <<shared, now, key, deadline, queries, done, history>>

\* The end of the loop's body: the ctx first, then the attempts left.
AfterFailure(c) ==
  /\ pc[c] = "failed"
  /\ IF c \in done THEN Return(c, [from |-> "ctx"])
     ELSE IF attempt[c] >= Attempts THEN Return(c, [from |-> "exhausted"])
     ELSE Continue(c, "pick")
  /\ UNCHANGED <<shared, now, key, deadline, queries, done, history>>

\* cachePut, under r.mu: the entry is replaced, whatever it holds by now.
CachePut(c) ==
  /\ pc[c] = "cachePut"
  /\ cache' = [cache EXCEPT ![key[c]] =
       [resp |-> reply[c].resp, born |-> reply[c].born,
        expires |-> now + EntryTTL(reply[c].resp)]]
  /\ Return(c, [from |-> "wire", resp |-> reply[c].resp, age |-> now - reply[c].born])
  /\ UNCHANGED <<protocol, next, now, key, deadline, queries, done, history>>

\* Environment: a ctx is cancelled.
Cancel(c) ==
  /\ c \notin done /\ done' = done \union {c}
  /\ UNCHANGED <<shared, now, pc, key, attempt, deadline, reply, result, queries, history>>

\* The clock does not pass over a deadline, nor over a goroutine that is computing;
\* a dial over udp asks nobody.
Computing(c) ==
  pc[c] \in {"pick", "failed", "cachePut"} \/ (pc[c] = "dial" /\ protocol = "udp")

Tick ==
  /\ now < MaxTime /\ now' = now + 1
  /\ \A c \in Client : ~Computing(c) /\ (deadline[c] # 0 => now < deadline[c])
  /\ UNCHANGED <<shared, pc, key, attempt, deadline, reply, result, queries, done, history>>

ClientStep(c) ==
  \/ CacheGet(c) \/ WaitGranted(c) \/ WaitCancelled(c) \/ PickResolver(c) \/ Dial(c)
  \/ Write(c) \/ Read(c) \/ ExchangeFails(c) \/ AfterFailure(c) \/ CachePut(c)

Next ==
  \/ \E c \in Client : \/ ClientStep(c) \/ Cancel(c)
                       \/ \E k \in Key : Ask(c, k)
                       \/ \E r \in Responses : Answer(c, r)
  \/ Tick

\* Goroutines run, limit.Wait returns (RateLimiter) and every read has a
\* deadline, so a Query that has begun always has a next step.
Spec == Init /\ [][Next]_vars /\ \A c \in Client : WF_vars(ClientStep(c))

------------------------------------------------------------------------------
(* Properties. *)

Entry == [resp : Responses, born : Nat, expires : Nat]

TypeOK ==
  /\ protocol \in Protocols /\ next \in Server /\ now \in Nat
  /\ cache \in [Key -> Entry \union {Nothing}]
  /\ pc \in [Client -> Places]
  /\ key \in [Client -> Key]
  /\ attempt \in [Client -> 0..Attempts]
  /\ deadline \in [Client -> Nat]
  /\ done \in SUBSET Client
  /\ tried \in [Client -> SUBSET Server]
  /\ granted \in [Client -> Nat]

Outcome(c, from) == result[c] # Nothing /\ result[c].from = from

\* A cached answer is served no longer than the TTL of any record in it, or, if it is
\* negative, than its SOA or the default says, plus the time of one exchange:
\* however the calls of clients that missed together overwrite each other's entries.
CacheFresh ==
  \A c \in Client : Outcome(c, "cache") =>
    LET r == result[c].resp
        Lives == IF r.ttls # {} THEN r.ttls ELSE {IF r.soa = NoSOA THEN DefaultTTL ELSE r.soa}
    IN  \A life \in Lives : result[c].age <= life + Timeout

\* A call that has its token is done after the timeouts of its attempts, however many
\* of them fail and in whatever way.  The exception is tcp, whose dial no timeout
\* bounds (MODULES.md:328-329).
CallBounded ==
  \A c \in Client :
    pc[c] \in {"pick", "dial", "write", "read", "failed", "cachePut"} /\ protocol # "tcp" =>
      now - granted[c] <= Attempts * Timeout

\* A Query that gives up, and during whose attempts no other call moved the
\* index, has asked every resolver if it had the attempts for it
\* (resolver.go:61-62).
AloneCoversServers ==
  \A c \in Client :
    Outcome(c, "exhausted") /\ alone[c] /\ Retries + 1 >= NServers => tried[c] = Server

\* After its ctx is cancelled a client sends at most one packet, whatever it
\* was doing and however many calls it still makes (MODULES.md:322-325).
CancelStopsSending == \A c \in Client : late[c] <= 1

\* A call sends nothing before its token, and for it no more packets than it
\* has attempts.
PacketsPerToken == \A c \in Client : packets[c] <= tokens[c] * Attempts

\* Every call of Query returns.
QueryReturns == \A c \in Client : (pc[c] # "idle") ~> (pc[c] = "idle")

------------------------------------------------------------------------------
(* What the repository says and the code does not do. *)

\* docs/MODULES.md:322-323: the error comes "only after every resolver/attempt
\* combination has failed".
FailureCoversServers ==
  \A c \in Client :
    Outcome(c, "exhausted") /\ Retries + 1 >= NServers => tried[c] = Server

==============================================================================
