# A TLA+ model of nett

nett is a command-line reconnaissance tool in Go: it discovers host names below
a target, guesses more from a word list, scans ports, and keeps what it finds as
a graph of assets and edges in a SQLite database. This directory holds TLA+
modules of the parts whose correctness depends on order, sharing, failure or
time, TLC configurations that check them on small instances, and proofs that the
TLA+ proof system checks for every size.

Every definition is translated from `src/`; `PROJECT.json` maps each one to the
lines it stands for. Documents are used for one thing: where they make a promise
that the code does not keep, the promise is stated and shown to fail.

Run `tlc -config MCRateLimiter.cfg MCRateLimiter` (and so on) to check a model,
`tlapm RateLimiterProofs.tla` to check proofs.

## 1. The system

### Components

| component | state it keeps | operations | modelled in |
|---|---|---|---|
| rate limiter, `internal/ratelimit` | rate, burst, tokens, last, under a mutex | `New`, `Wait` (a loop of `take` and a select on timer and ctx) | `RateLimiter` |
| worker pool, `internal/workerpool` | semaphore channel, WaitGroup, per call of `Run` | `Run` | `WorkerPool`, contract in `PoolContract` |
| DNS resolver, `internal/dns/resolver.go` | round-robin index, cache, under a mutex | `Query`, `exchangeWithRetry`, `pickResolver`, `cacheGet`, `cachePut`, typed lookups | `Resolver`; `lookupIP` in `Lookup` |
| DNS transport, `internal/dns/transport.go` | a socket per exchange | `exchangeUDP`, `exchangeTCP`, `exchangeDoT`, `exchangeDoH` | `Resolver` |
| wildcard detection, `internal/dns/wildcard.go` | none | `DetectWildcard`, `Is` | `Lookup` |
| wire format, `internal/dns/wire.go`, `message.go` | none | `Marshal`, `Unmarshal`, `readName` | `Wire` |
| scope engine, `internal/scope` | rule sets and learned addresses, under an RWMutex | `New`, `AddDomain`, `AddIP`, `LearnIP`, `AllowHost`, `AllowIP`, `AllowURL` | `Scope` |
| asset store, `internal/store/store.go`, `edges.go`, `schema.go` | tables projects, assets, edges | `CreateProject`, `UpsertAsset`, `UpsertEdge`, queries | `AssetStore`, contract in `GraphContract`; in `ScanRun` |
| provenance, `internal/store/provenance.go` | table provenance | `AddProvenance` | `ScanRun` |
| events and module runs, `internal/store/events.go` | tables events, module_runs | `InsertEvent`, `PendingEvents`, `MarkEventStatus`; module runs | `EventLog`: the events (no caller in `src/` yet) |
| subdomain discovery, `internal/subdomain` | hits, answers, per call | `Discover` | `ScanRun` |
| brute force, `internal/permute` | the same | `BruteForce` | `ScanRun` |
| certificate transparency, `internal/ct` | none | an HTTP query | `ScanRun`: any names, or a failure |
| port scanner, `internal/portscan` | results, per call | `Scan`, `ParsePorts` | `ScanRun`: `Scan`; `Ports`: port lists |
| scan command, `internal/cli/scan.go` | the process: phases, what is to be written | `runScan`, `runDiscover`, `runBrute`, `runPortScan`, `persistHostname`, `persistPort`, `parseScanArgs` | `ScanRun`; arguments in `CommandLine` |
| entry point, `cmd/nett/main.go` | the root context | SIGINT and SIGTERM cancel it | `Cancel` of each module |
| domain model, `internal/model` | none | `AssetID`, `EdgeID`: ids are functions of what they name | `ScanRun`, `AssetStore`: an id is an identity |
| configuration, `internal/config` | none after start | `Load`, `ApplyEnv`, `Validate` | `Settings` |
| dispatch, `internal/cli/app.go`, `commands.go` | none | `Execute`: flags, exit codes | `CommandLine` |
| module registry, help, rendering, logging, version | start-up tables, text | | not modelled |

### How they interact

`runScan` is one goroutine that goes through the phases its flags ask for. Each
phase that works in parallel calls `workerpool.Run`; the workers share one
`Resolver` and one `Limiter`, and fill a map or a slice that the phase reads
after `Run` has returned. Workers of a discovery tell the `Scope` which addresses
hosts in scope have; the port scan asks the same `Scope` before it dials. Back on
its own goroutine the phase writes its findings, one SQL statement at a time and
with no transaction around them. SIGINT cancels one context that everything
above receives: the pool's dispatch, a `Wait`, a dial, a statement.

A second scan, by the same user or another, may use the same database file:
SQLite makes a statement atomic, nothing makes an upsert (a read and a write) so.

### What is hard

* The limiter wakes sleepers by timers of their own and hands nothing over; a
  caller that wakes may find the token taken.
* The pool's select may take a slot although the ctx is done; `Run` must be
  drained, in whatever order its goroutines end, before its caller reads.
* Retries walk over servers by an index that all calls move.
* Calls that miss the cache together overwrite each other's entry.
* Upserts interleave, fail half way, and are repeated by the next scan.
* A scan may be stopped between any two statements and run again over what it
  left.
* The scope learns while it is asked.
* An event must be new to one caller only, done once, and never come back, though
  producers race, answers are lost and engines mark what another has marked.
* The decoder follows offsets that come from the network; a chain of aliases may
  loop; probes for a wildcard fail; arguments take other arguments as their values.

`PROJECT.json` lists these hazards one by one, each with its line and the
properties that would show it going wrong, or the reason why none does.

## 2. The modules

```
RateLimiter      <- RateLimiterProofs      <- MCRateLimiter  (2 configurations)
WorkerPool       <- WorkerPoolProofs       <- MCWorkerPool
  implements PoolContract
Resolver         <- ResolverProofs         <- MCResolver     (3 configurations)
AssetStore       <- AssetStoreProofs       <- MCAssetStore   (2 configurations)
  implements GraphContract
EventLog         <- EventLogProofs         <- MCEventLog
Scope <- ScanRun <- ScanRunProofs          <- MCScanRun      (2 configurations)
  uses PoolContract
Settings <- CommandLine \
Wire, Lookup, Ports      } <- Algorithms <- WireProofs <- AlgorithmsProofs
Lists <- Wire, Ports                     <- MCAlgorithms
```

The MC modules extend the components, not their proofs. `WireProofs` has the theorems
about names and messages, and before them the lemmas about numbers and lists that the
other sequential computations need as well: minima, induction, functions defined by a
first value and a step, where the parts of a flattened list stand. `Lists` has the
ordering of a finite set, which ports and names both use.

In every module the definitions whose comment begins with "Mutant:" are not part
of the model: each is a definition of the model with one plausible slip in it,
kept to show that some property would notice.

### RateLimiter

One `Limiter` and the goroutines that call `Wait`. `take` runs under the mutex
and is one action, `Take`; the select is `TimerFires` and `CtxDone`. The level of
the bucket, a `float64` in the code, is an integer number of units, `Unit` of
them to a token, and time is a clock of `TicksPerSecond`. That keeps the two
roundings that matter: a burst that is not a whole number of tokens, and a
delay that is truncated to the clock (`RetryDelay`), after which a caller may
wake too early and has to sleep again. Rounding errors of floating point
themselves are not modelled.

### WorkerPool and PoolContract

One call of `Run`. The dispatching goroutine is at one of five places (`Check`,
`Acquire` or `SelectDone`, `Spawn`, `WgWait`), and each item has a goroutine
that calls fn, gives its slot back, and tells the WaitGroup, in the order in
which the defers run. `Spawn` is the go statement and the start of fn in one step, so
that an item "begins" when it is dispatched. `PoolContract` is what the callers rely on: it knows items
that wait, run or are finished, a limit, a cancel, one grace item, and a return.
`WorkerPool` implements it with the mapping at the end of the module.

### Resolver

Goroutines that call `Query` on one `Resolver`. A call goes through `CacheGet`,
the limiter, and up to `Attempts` exchanges, each `PickResolver`, `Dial`,
`Write`, `Read` with the failures in between, to `CachePut`. Only `Dial` looks at
the ctx, as in `transport.go`, and the end of the loop's body. The protocols
differ in what the deadline covers: over udp and tcp it is computed after the dial,
over dot and doh before it (`BoundsDial`); the dial of udp takes no time, that of
tcp as long as the operating system likes. A message is its
rcode, the set of its TTLs and its SOA minimum. The index is kept modulo the
number of servers. The limiter is the result of module `RateLimiter`: a wait
ends with a token or with a cancelled ctx.

### AssetStore and GraphContract

Writers, goroutines or processes, each in an upsert of one row: `Begin` takes
the time, `Read` is the SELECT, `Write` the merge and the INSERT ... ON CONFLICT
DO UPDATE. `Upserted` is what that statement does with the row that is there by
then, which need not be the row that was read. The history variable `racy` has
the rows on which two upserts have overlapped. `GraphContract` is what
`docs/DATA_MODEL.md` promises (an observation is merged in one step and destroys
nothing) for the rows outside `racy`, and for the others what still holds.
An edge is a row whose observations have no value.

### EventLog

The table `events` and its callers as the comments of `events.go` describe them:
producers insert, engines fetch a batch and mark what is in it. `Begin` is the
reading of the clock in `InsertEvent`, `Insert` its statement, whose answer may be
lost after it has taken effect. Times are stored as texts and sorted as texts, so
`FormatTime` is modelled by what it does (a fraction loses the zeros at its end and
then its dot) and `Before` compares texts. An engine holds its batch while others
mark the same events.

### Wire, Lookup, Ports, Settings, CommandLine and Algorithms

The sequential computations as operators and recursive functions, one module
for each part of the code. The loops of `readName` and `lookupIP` are one pass each
(`NamePass`, `Hop`) and the function from passes to states that repeats it; so are
those of `decodeTXT` and of the items of a message (`TextPass`, `ItemPass`). `Wire` works on octets, with every record type;
`Lookup` has the chase of aliases and the wildcard test, over a table of what
servers would answer; `Ports` and `CommandLine` start from tokens; `Settings`
has the layers of the configuration as records. `Algorithms` is a machine whose
actions call each of them once, with an input from a small set; its
invariants say of input and result what a caller relies on, in other terms
than the code's: a path through octets for a name, the first name of a chain that is no
alias, the set of ports, the highest layer that mentions a setting.

### Scope and ScanRun

`Scope` has the rule sets as a record and each method as an operator on it; a
host name is the sequence of its labels, a glob or a CIDR the set of what it
matches. `ScanRun` is the process and the database: `Start` is `runScan` up to
its first statement, `Discover`, `BruteForce` and `ScanPorts` start a pool (the
actions of `PoolContract`), `LookupsEnd` and `ProbesEnd` are the return of
`Run`, and one action stands for each SQL statement, in the order of
`persistHostname`. `StatementFails`, `Cancel` and `Kill` may come anywhere;
`Start` may come again over the same database.

## 3. The runs

| run | instance | states | what it shows |
|---|---|---|---|
| `limiter` | 2 callers, 2 calls each, three rates, 7 ticks | 110 037 | `WindowBound`, `NoOversleep`, `CancelReturns` |
| `limiter_live` | the same to tick 16, prompt clock | 31 437 | `EveryCallReturns` |
| `pool` | 4 items, concurrency -1, 1, 2, 3 | 3 891 | `ConcurrencyBound`, `AtMostOneLate`, `Drained`, `RunReturns`, and that the contract is implemented |
| `resolver` | 2 clients, 2 servers, 1 retry, 4 queries | 194 235 | `AloneCoversServers`, `CancelStopsSending`, `PacketsPerToken`, `QueryReturns` |
| `resolver_cache` | 2 clients, three answers, 3 protocols, 3 ticks | 2.0 million | `CacheFresh`, `CallBounded` |
| `store` | 2 writers, 2 rows, 2 upserts each | 200 888 | `ReadIsKept`, `VerdictsFixed`, and that the contract is implemented |
| `scan` | 2 runs, 4 targets, 5 hosts, 2 addresses, 2 ports | 270 041 | `NothingDangles`, `SuccessIsComplete`, `ResolvedIsCurrent`, `ProbesInScope`, `HostsInScope`, `RunEnds` |
| `events` | 2 producers, 2 engines, 3 events, 4 inserts | 571 485 | `InsertedOnce`, `FinishedStaysFinished`, `PendingOldestFirst` |
| `algorithms` | every input of small sets | 95 737 | `NameIsPath`, `RoundTrip`, `ChaseFollowsChain`, `WildcardSound`, `PortsExact`, `ArgsAnyOrder`, `TopLayerRuns` |
| `resolver_docs`, `store_docs`, `scan_docs` | parts of the above | | see section 5 |

Why the bounds are enough for the cases that matter:

* `limiter`: two callers are enough for one to take the token another slept for,
  and two calls each for windows of one to four grants. The three rates
  are "unlimited", one below a token per second (the burst is raised to one
  token), and one whose burst is a token and a third and whose delays are
  truncated. Seven ticks earn more than the burst. `limiter_live` lets no call
  begin after tick 1 and runs to tick 16, by which credit for all four calls has
  been earned, so that the end of the clock is not what ends a wait.
* `pool`: more items than slots for every concurrency, so the semaphore fills;
  -1 is raised to 1. The cancel falls between any two steps.
* `resolver`: two servers and one retry are the smallest case in which retries
  can cover all servers and a second client can spoil it. Time stands still, as
  neither the cache nor the deadlines matter to these properties (any exchange
  may fail at any point). `resolver_cache` has the clock: TTLs 0 and 2 in one
  answer, an NXDOMAIN with a SOA minimum of zero, an empty answer without SOA, and
  3 ticks, more than the longest TTL and an exchange. It has udp, tcp and dot (doh is
  dot in the model) and no retry, which matters to `CallBounded` alone and is
  covered by its theorem. Its two clients are interchangeable (symmetry).
* `store`: two writers can lose each other's update; the second upsert of each
  shows what later readers find. `Horizon` 1 gives two times to tell apart.
* `scan`: a domain with a subdomain that is in scope and one that is excluded, a
  second domain, which is in scope for a scan of itself and out of scope for a scan
  of the first, an address given as the target, an excluded address that names
  in scope resolve to. A provider may name any of the hosts, so both reasons to
  drop one occur: no rule includes it (the other domain), or one excludes it
  (`HostsInScope`). Two runs, of the same target or of two, each stopped anywhere or not at all, over one
  database. Discovery and brute force come after each other in one plan; a port
  scan in another (they share no state but the scope, and a discovery can only
  make the scope larger by addresses of hosts in scope).

* `events`: two producers race for an event and two engines for its marks; three
  events and a limit of two leave one out of a batch; the clock passes from one
  second to the next with a fraction in each, so that the order of texts and of
  times differ. Events, producers and engines are only compared with each other, so
  their permutations are a symmetry; the one property of steps among them
  (`PendingOldestFirst`) speaks of all engines and events alike.
* `algorithms`: the bounds of the code are made so small that they are reached:
  one jump, labels of two octets, two hops, port 3. Buffers are all sequences of up
  to five octets out of 0, 1, 2, 3 and 192: labels, ends, pointers, loops of
  pointers. Messages have every record type, and are received whole, with any one octet changed,
  and cut short; one is compressed the way servers do it. Zones have three names,
  one more than a lookup asks for.

The clock and the counters stop at their bounds, so states without a successor
are expected and deadlock is not checked: in all of them a program that has done
its work has stopped. That nothing gets stuck earlier is what the liveness
properties say (`CancelReturns`, `EveryCallReturns`, `RunReturns`,
`QueryReturns`, `RunEnds`).

### Fairness

* Every goroutine that can take a step does (WF of its steps): the Go scheduler.
* `SF(CtxDone)` in `RateLimiter`: a select with two ready cases picks at random,
  so a caller that comes back to it again and again leaves in the end.
* `PromptSpec`, for `EveryCallReturns` alone: the clock goes on and does not
  pass over a caller that would be granted a token. Without the second part the
  property is false, and rightly so: credit above the burst is lost
  while no caller is scheduled, and on a finite clock enough of it may be lost.
* No fairness of cancellation, of new calls, of answers or of kills.
* `WorkerPool` assumes that fn returns. Its callers see to it: a query has
  deadlines (`QueryReturns`), a dial a timeout, a wait returns.

### Properties worth a word

* `WindowBound` is the token bucket's promise for windows between any two grants,
  and so for the callers together; the code only compares a level with one.
* `NoOversleep`: what others do to the bucket while a caller sleeps never makes
  its timer later than the token.
* `AtMostOneLate`: `Run` checks `ctx.Err()` and then selects; a cancel in between
  lets one item through, never two.
* `AloneCoversServers` is what is true of the retries; `FailureCoversServers`,
  which the documents say, is not.
* `CacheFresh` allows one exchange above the TTL, because the entry's life starts
  when it is put and the answer was given up to a deadline earlier. Answers without
  records are among those it speaks of.
* `CallBounded` has an exception, tcp, where the dial is not bounded (section 5).
* `PendingOldestFirst` orders by seconds. Within a second the code's order is
  another, see section 5.
* `RoundTrip` starts from octets too: what was received damaged and still decoded
  is encoded and decoded again. That is where a field read at the wrong offset shows.
* `WildcardSound` says what failing probes may do: a wildcard may be missed, but no
  host is taken for noise that has an address no probe has shown.
* `ReadIsKept` is what is true of racing upserts: an observation is lost only to a
  writer that had read before it was written. `NeverDestroysEvidence`, which the
  documents say, is not.
* `SuccessIsComplete` over two runs is what makes it safe to run a scan again
  after a crash: ids are deterministic, so rows that are there are completed.

## 4. What is proved

| theorem | module | states |
|---|---|---|
| `TypeCorrect`, `WindowIsBounded`, `NobodyOversleeps` | `RateLimiterProofs` | `TypeOK`, `WindowBound`, `NoOversleep` |
| `TypeCorrect`, `ConcurrencyIsBounded`, `LateIsBounded`, `ReturnIsDrained` | `WorkerPoolProofs` | `TypeOK`, `ConcurrencyBound`, `AtMostOneLate`, `Drained` |
| `RunKeepsContract` | `WorkerPoolProofs` | `WorkerPool` implements `PoolContract` |
| `TypeCorrect`, `NoServerLeftOut`, `OneLatePacket` | `ResolverProofs` | `TypeOK`, `AloneCoversServers`, `CancelStopsSending` |
| `TokensBoundPackets`, `ServedFresh`, `NoCallOverruns` | `ResolverProofs` | `PacketsPerToken`, `CacheFresh`, `CallBounded` |
| `TypeCorrect`, `WhatWasReadIsKept`, `VerdictsNeverChange` | `AssetStoreProofs` | `TypeOK`, `ReadIsKept`, `VerdictsFixed` |
| `UpsertsKeepContract` | `AssetStoreProofs` | `AssetStore` implements `GraphContract` |
| `TypeCorrect`, `EventIsNewOnce`, `GuardHolds` | `EventLogProofs` | `TypeOK`, `InsertedOnce`, `FinishedStaysFinished` |
| `TypeCorrect`, `NeverDangles`, `SuccessStoresAll` | `ScanRunProofs` | `TypeOK`, `NothingDangles`, `SuccessIsComplete` |
| `ProbesStayInScope`, `HostsStayInScope` | `ScanRunProofs` | `ProbesInScope`, `HostsInScope` |
| `VerdictIsCurrent` | `ScanRunProofs` | `ResolvedIsCurrent` |
| `OldestFirst` | `EventLogProofs` | `PendingOldestFirst` |
| `NamesArePaths`, `NameLoopEnds` | `WireProofs` | `NameIsPath`; that the loop of `readName` ends |
| `MessagesRoundTrip`, `DecodedAreMessages` | `WireProofs` | `RoundTrip`; that what is decoded is well formed |
| `ChasesFollowChains`, `WildcardsAreSound` | `AlgorithmsProofs` | `ChaseFollowsChain`, `WildcardSound` |
| `PortsAreExact`, `TopLayersRun` | `AlgorithmsProofs` | `PortsExact`, `TopLayerRuns` |
| `ArgsReadInAnyOrder` | `AlgorithmsProofs` | `ArgsAnyOrder` |

They hold for any callers, rates and times; any number of items and any
concurrency; any clients, servers, retries, timeouts and answers; any writers,
rows and observations; any events; any hosts, rules, plans of phases and runs; any
octets, messages, replies, probes, port specifications, lines of arguments and layers of
configuration. The assumptions are those the modules name (`ConstantsAssumption`,
`PoolAssumption`, `ResolverAssumption`, `StoreAssumption`, `EventLogAssumption`,
`AbsentAssumption`, `ScanAssumption`, `InputsAssumption`, `PortsAssumption`,
`HopsAssumption`, `JumpsAssumption`, `MessagesAssumption`, `UnitsAssumption`): that
counts and bounds are natural numbers, the length of a label is not taken for a
pointer, a token and a second are not empty, inputs have their types, a word
of the command line that is no flag is not one of the flags, and what stands for "no
row" is not a row.
Those about the scan rest on `PlansAssumption` too: a discovery comes first in a
plan or not at all, as `runScan` asks for `-d` once and before anything else. It is
`VerdictIsCurrent` that needs it: for other plans it would be false, as a later
discovery might fail to resolve what a brute force has resolved.

**The limiter.** `WindowBound` relates past grants and says nothing of the
present. The invariant adds `Ledger`: for each past grant, what has been taken
since, plus what the bucket holds, is at most a burst plus what was earned from
then to `last`. A grant closes a window whose ledger says it may; a refill adds
to both sides or, at the cap, to one. `InLoopLimited` keeps the unlimited case out
of the arithmetic.

**The pool.** The invariant counts: the tokens in the semaphore are the
goroutines that have not given their slot back, and the one Run holds between
its select and the go statement; the WaitGroup's counter is the goroutines that have
not told it; items are begun in order; and if an item was begun after the
cancel, Run is past its last check. The contract follows step by step from the
same invariant.

**The store.** `ReadIsKept` is made inductive by saying the same of the row that a
writer holds between its read and its write (`HeldIsKept`). The contract needs
three facts of a row that is not in `racy`: only one upsert of it is in progress
(`Alone`), the row it has read is the row that is there (`Current`), and its time is
no earlier than the row's (`InTime`). TLC has checked the whole invariant on the
instance of run `store`.

**The resolver.** Each property speaks of the end of a call, and the invariant
says for every place in it how far the call has come: what it has sent (`Sent`,
`Late`), how its deadline and its answer's birth stand to the clock (`Dated`), by when
its attempts so far are over (`OnTime`), which servers it has asked (`Covers`). The
last counts servers backwards from the index: a call that was alone has asked all
at a distance of up to its attempts, and a pick moves every distance by
one. `CacheDated` says of every entry that it expires within its TTL and one timeout of
its answer's birth; which of two racing calls put it does not matter. An entry's TTL
is the minimum of a set, which exists because subsets of a finite interval are
well-founded (`LeastTTL`).

**The event log.** Rows never go away, a call that was told "new" has its row
(`NewHasRow`), and what an engine holds has one (`HeldHasRow`), so that marking never
misses. `OldestFirst` is about steps: only a fetch changes a batch, the text order
refines the order of seconds (`EarlierSecondBefore`), and the batch is a beginning of
what is pending in that order.

**The scan.** `NothingDangles` and `SuccessIsComplete` rest on the order of the
statements. `Placed` says what is in the database when a statement that refers to it
is about to be executed; `Halfway` what has been written of the host at hand;
`Accounted` that whatever has been found is stored completely or still on the list
(`Owed`), unless the process has failed. A crash may come anywhere because nothing
is said of what a failed run has left, but that nothing in it dangles. For the
scope, `ScopeInv` says that no step of a run changes the rules, and that addresses
are learned only for a target that is in scope; `Filtered` that what is looked up,
and what is still to be written, is in scope for a scan of the target (`ScopeOf`).
`HostsInScope` then holds of the database although its rows come from scans of
different targets: a step adds at most one row or edge, for a host that passed the
rules of the target it is linked to. For `ResolvedIsCurrent`, `Verdicts` says that a host that was found has
the right verdict or its row is still to be written (`Unwritten`), `FoundNow` that what
is written is what was found, and `PlanInv` that no discovery is left once a phase has
begun. TLC has checked the whole invariant on
the instance of run `scan`.

**The sequential computations.** A behaviour of `Algorithms` is one call, so each
property is inductive, and the work is in what the call computes. A loop is a
function from passes to states, which exists by `Iterates`; what holds before every
pass is shown by induction over sets instead of operators (`Induction`). For a name, `GoesAlong` says that after k passes the loop is
where the path is after k steps, with the labels, the jumps and the offset to return
that belong to them. From it `ReadNameOutcome` has the loop end at the first zero of
the path, outside of the buffer, or at one jump too many. The property speaks of the
path alone, so two facts about paths are left: one that is outside stays there
(`OutsideStays`), and one that comes to a zero has not been anywhere twice
(`PathRepeats`), so the zero comes within as many steps as there are octets
(`ZeroIsNear`, by the pigeon hole). That the loop is over within `MaxPasses`, which the
model uses, is `NameLoopEnds`: between two jumps it goes forward.

For a message, `Stands(s, buf, off)` says that the octets s are those of buf from off
on. What is concatenated stands part by part (`StandsInParts`, `FlatIsLaidOut`), so all
of an encoded message stands in itself: six numbers, questions, records
(`HeaderStands`). What was encoded is read as what it was wherever it stands, in
whatever message: a number (`NumbersStand`), a name (`NameReads`: its octets are a path
without a pointer, so `NameIsRead`, the lemma of `NamesArePaths`, has its labels, and
`JoinOfSplit` says that these joined are the name again), the data of each type
(`DataReads`), a question, a record (`QuestionReads`, `RecordReads`). `ItemsRead` goes
along the items: where one ends the next one stands. The sections are cut from the
list of items by the counts (`SectionStands`), the flags are read bit by bit
(`FlagsRead`). The other half of `RoundTrip` starts from octets anyone may have sent:
`DecodedAreMessages` says that what is decoded of them is a message, and then the
first half is about it. Two conditions are in the property, not in the proof:
no name ends in a dot (`DotsTrimmed`), as the encoder takes it for the root, and the
counts and lengths fit their fields (`Fits`), which the encoder does not look at.
TLC is no help for the second, as no message of a small instance is so long.

For a chase the chain
without a bound and the loop with one are compared in the same way (`LookupFollowsChain`);
an alias seen before is a chain without an end (`LoopHasNoEnd`). For ports,
`AscendingSorts` says that a finite set can be put in order, and `SameList` in one way
only. For the arguments of a scan, `FlattenPlaces` says where each unit of the line
stands in its words, and `UnitsRead` that every unit is read as what it is, but for a
target behind a flag that may take it; `ArgsRead` puts the flags, the values and the
target together from there. For the configuration, laying layers over each other gives the value of the highest
that mentions a setting (`FourLayers`).

**Model-checked only.** The liveness properties (`CancelReturns`, `EveryCallReturns`,
`RunReturns`, `QueryReturns`, `RunEnds`): fairness and ENABLED are out of the prover's
reach. Every invariant and every action property that a run checks is proved.

## 5. Where the documents and the code disagree

* `FailureCoversServers`: `docs/MODULES.md:322-324` has `exchangeWithRetry` give
  up only after every resolver was tried. Two calls that run at the same time
  move the same index (`resolver.go:136`), so each may ask one server twice and the
  other never. Run `resolver_docs` shows the two calls.
* `NeverDestroysEvidence`: `docs/DATA_MODEL.md:220-221` and `store.go:26`. Two
  upserts of one asset that both read before either writes: the later write
  takes back list elements, confidence and `last_seen` of the other. Run `store_docs`.
  In today's commands one process upserts from one goroutine, so it takes two
  scans over one project at once.
* `VerdictIsScope`: `docs/DATA_MODEL.md:39-40` has every asset store its scope
  verdict. `persistHostname` stores each address with `InScope: true`
  (`scan.go:364`), also one the configuration excludes. Run `scan_docs`. Such an
  address is never dialled (`ProbesInScope`).

Without a run of their own; the runs check what is true instead:

* `docs/DATA_MODEL.md:197` has every edge backed by provenance; the code writes
  provenance for host names only (`scan.go:351-356`).
* `events.go:47-48` has events come oldest first. Times are compared as texts
  (`events.go:53`), and `formatTime` drops trailing zeros: "...:00Z" sorts after
  "...:00.5Z".
* `docs/MODULES.md:326-328` tells an absent name from a failed query. SERVFAIL and
  REFUSED come out as absent (`resolver.go:77-84`, `resolver.go:243`).
* `docs/MODULES.md:328-329` has every query bounded by the timeout. The dial of tcp is
  not (`transport.go:69`).
* `wire.go:20-22` has decoded messages encode again. One with a record of another
  type, or a label of 64 octets or more, does not; and one with more items or longer
  data than 16 bits count (a SOA whose names are pointers to long ones) is encoded with
  counts and lengths cut to their fields (`wire.go:47-50`, `wire.go:192`).
* `app.go:47` gives usage errors the exit code 2. Those in the arguments of scan
  exit with 1 (`app.go:145`).
* `resolver.go:207-209` has one hop of aliases, the code up to eight names.
* `wildcard.go:18-20` speaks of exactly the wildcard's addresses, `Is` of a subset.
* `resolver.go:62-64` has records of the requested owner; `filterAnswers` looks at
  the type only.
* `app.go:7-9` has scan not registered; it is.

## 6. What is not modelled, and the plan

Not modelled, and why:

* The module registry: a static table that is filled at start-up and listed.
* Help, rendering, logging, the version: text.
* The typed lookups but `lookupIP`: each picks a field of the records that `Query`
  returns.
* `UpsertModuleRun` and `GetModuleRun`: one caller's upsert of its own row, an
  edge of module `AssetStore` without observations.
* The listing queries of the store and its table of projects; `AllowURL` of the scope,
  which nothing calls.
* How a word list is read and a certificate log's reply decoded: any names may come of
  them.
* What a caller of the store may supply and none does: a `FirstSeen` or `LastSeen`
  of its own (`store.go:196-201`, `edges.go:21-26`), the `Status` or `CreatedAt` of a
  new event (`events.go:21-26`).
* TLS, HTTP and the length prefix of streams; SQLite below the statement;
  rounding of floating point.

Order of work. All of it is done but the last item.

1. `RateLimiter`, `WorkerPool` with `PoolContract`: the shared primitives; proofs.
2. `Resolver`: what is shared between queries; the stream transports; proofs.
3. `AssetStore` with `GraphContract`: what is shared between scans; proofs.
4. `Scope` and `ScanRun`: the whole, composed of the above; crash and rerun; proofs.
5. `EventLog`: the loop guard of the pivot engine of `docs/ARCHITECTURE.md`; proofs.
6. `Wire`, `Lookup`, `Ports`, `Settings`, `CommandLine`, called by `Algorithms`: the
   sequential computations, each against a definition in the mathematical sense.
7. `WireProofs` and `AlgorithmsProofs`: the same for every input.
8. Left: a module for the pivot engine and for resuming by module runs, once `src/` has
   their callers.
