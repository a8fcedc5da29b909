-------------------------------- MODULE ScanRun -------------------------------
(***************************************************************************)
(* nett scan (internal/cli/scan.go): a process that discovers or guesses   *)
(* host names below its target, scans the target's ports, and writes what  *)
(* it finds to the project's database, one SQL statement after another and *)
(* with no transaction around them.  SIGINT cancels the context of every   *)
(* statement and every lookup; the process may also be killed.  Whatever   *)
(* has been written stays, and the scan may be run again.                  *)
(*                                                                         *)
(* Lookups and probes are the items of a worker pool, taken from module    *)
(* PoolContract, which WorkerPool implements.  An upsert is one step: a    *)
(* process makes one at a time (module AssetStore has the others).  The    *)
(* scope of the process is a record of module Scope.  What is only printed *)
(* (the wildcard mark of a finding) is left out.                           *)
(***************************************************************************)
EXTENDS Scope

CONSTANTS Host, IP, Port,
          Targets,      \* [host, ip] of what may be scanned; an IP has a host no rule matches
          NoIP,         \* the ip of a target that is a name
          Config,       \* the scope section of the configuration
          Wordlist,     \* host names the word list gives below the target
          Answers,      \* sets of addresses a lookup may return, {} for NXDOMAIN
          Plans,        \* the sequences of phases the flags may ask for
          Concurrency,  \* workers of a pool, by phase
          MaxRuns,      \* bound: processes started
          Absent        \* no row

ASSUME ScanAssumption ==
  /\ Targets \subseteq [host : Host, ip : IP \union {NoIP}] /\ NoIP \notin IP
  /\ Wordlist \subseteq Host /\ Answers \subseteq SUBSET IP
  /\ Concurrency \in [{"discover", "brute", "ports"} -> Nat \ {0}] /\ MaxRuns \in Nat
  /\ Absent \notin [inScope : BOOLEAN, resolved : BOOLEAN]

\* runScan asks for -d once, and before anything else.
ASSUME PlansAssumption ==
  /\ Plans \subseteq Seq({"discover", "brute", "ports"})
  /\ \A p \in Plans : \A i \in DOMAIN p : p[i] = "discover" => i = 1

VARIABLES assets, edges, prov,              \* the database
          runs,                             \* processes started
          pc, phase, plan, exit, cancelled, \* the process: its place, the phase and those to come
          scope, target, addr,
          limit, waiting, running, finished, returned, grace,  \* its worker pool
          ips, open,                        \* what its lookups and probes found
          todo, cur, ipsLeft, at,           \* what it has yet to write
          reported, probed                  \* history: all it found; addresses it dialled

db == <<assets, edges, prov>>
pool == <<limit, waiting, running, finished, returned, grace>>
found == <<ips, open, reported, probed>>
writing == <<todo, cur, ipsLeft, at>>
process == <<runs, plan, phase, exit, cancelled, scope, target, addr>>
vars == <<db, process, pc, pool, found, writing>>

Pool == INSTANCE PoolContract WITH Item <- Host \union Port

AssetIds ==
  ({"domain", "hostname"} \X Host) \union ({"ip"} \X IP) \union ({"port"} \X (IP \X Port))
Row == [inScope : BOOLEAN, resolved : BOOLEAN]
Stored == {a \in AssetIds : assets[a] # Absent}

\* Places where a statement is about to be executed.
Statements == {"project", "domain", "hosts", "prov", "link", "ips", "resolves", "ports"}
Places == Statements \union {"phase", "lookups", "probes", "exited"}

------------------------------------------------------------------------------
(* The process. *)

Init ==
  /\ assets = [a \in AssetIds |-> Absent] /\ edges = {} /\ prov = {}
  /\ runs = 0 /\ pc = "exited" /\ phase = "none" /\ plan = <<>>
  /\ exit = "none" /\ cancelled = FALSE
  /\ scope = NewScope(Config)
  /\ target \in Targets /\ addr = NoIP
  /\ limit = 1 /\ waiting = {} /\ running = {} /\ finished = {} /\ returned = TRUE /\ grace = FALSE
  /\ ips = [h \in Host |-> {}] /\ open = {} /\ reported = {} /\ probed = {}
  /\ todo = {} /\ cur = <<>> /\ ipsLeft = {} /\ at = NoIP

\* The rules of a scan of t: those of the configuration, and t itself.
ScopeOf(t) ==
  IF t.ip # NoIP THEN AddIP(NewScope(Config), t.ip) ELSE AddDomain(NewScope(Config), t.host)

\* runScan up to the first statement: the target is brought into scope.
Start(t, p) ==
  /\ pc = "exited" /\ runs < MaxRuns
  /\ runs' = runs + 1 /\ target' = t /\ addr' = t.ip /\ plan' = p
  /\ scope' = ScopeOf(t)
  /\ pc' = "project" /\ phase' = "none" /\ exit' = "none" /\ cancelled' = FALSE
  /\ waiting' = {} /\ running' = {} /\ finished' = {} /\ returned' = TRUE /\ grace' = FALSE
  /\ limit' = 1
  /\ ips' = [h \in Host |-> {}] /\ open' = {} /\ reported' = {} /\ probed' = {}
  /\ todo' = {} /\ cur' = <<>> /\ ipsLeft' = {} /\ at' = NoIP
  /\ UNCHANGED db

Exit(code) == pc' = "exited" /\ exit' = code

\* Mutant: the error of a statement of persistHostname is dropped.
FailureIgnored ==
  /\ pc \in Statements /\ (pc \in {"hosts", "ports"} => todo # {})
  /\ IF pc \in {"prov", "link", "ips", "resolves"}
     THEN pc' = "hosts" /\ todo' = todo \ {cur} /\ UNCHANGED exit
     ELSE Exit("error") /\ UNCHANGED todo
  /\ UNCHANGED <<db, runs, plan, phase, cancelled, scope, target, addr, pool, found, cur, ipsLeft, at>>

\* Mutant: a statement that has failed is tried again.
FailureRetried ==
  /\ pc \in Statements /\ (pc \in {"hosts", "ports"} => todo # {})
  /\ UNCHANGED vars

\* A statement with a ctx that is done is not executed; any may fail.
StatementFails ==
  /\ pc \in Statements /\ (pc \in {"hosts", "ports"} => todo # {})
  /\ Exit("error")
  /\ UNCHANGED <<db, runs, plan, phase, cancelled, scope, target, addr, pool, found, writing>>

Executed(place) == pc = place /\ ~cancelled

CreateProject ==
  /\ Executed("project") /\ pc' = "phase"
  /\ UNCHANGED <<db, process, pool, found, writing>>

\* Environment: SIGINT; and SIGKILL, or a loss of power.
Cancel ==
  /\ pc # "exited" /\ ~cancelled /\ cancelled' = TRUE
  /\ UNCHANGED <<db, runs, plan, phase, exit, scope, target, addr, pc, pool, found, writing>>

Kill ==
  /\ pc # "exited" /\ Exit("killed")
  /\ UNCHANGED <<db, runs, plan, phase, cancelled, scope, target, addr, pool, found, writing>>

------------------------------------------------------------------------------
(* Discover and BruteForce. *)

Enter(p) == pc = "phase" /\ plan # <<>> /\ Head(plan) = p /\ plan' = Tail(plan) /\ phase' = p

\* Run is called with these items; with a ctx that is done it begins none.
StartPool(items) ==
  /\ limit' = Concurrency[phase']
  /\ waiting' = items /\ running' = {} /\ finished' = {}
  /\ returned' = FALSE /\ grace' = ~cancelled

PhaseFails(p) ==
  /\ Enter(p) /\ Exit("error")
  /\ UNCHANGED <<db, runs, cancelled, scope, target, addr, pool, found, writing>>

\* The target is out of scope, or the word list cannot be read.
DiscoverRefused == ~AllowHost(scope, target.host) /\ PhaseFails("discover")
BruteRefused == PhaseFails("brute")

\* Mutant: a name is a candidate unless a rule excludes it.
StartUnlessExcluded(names) ==
  /\ AllowHost(scope, target.host)
  /\ StartPool({h \in names : ~ExcludedHost(scope, h)})
  /\ pc' = "lookups"
  /\ ips' = [h \in Host |-> {}]
  /\ UNCHANGED <<db, runs, exit, cancelled, scope, target, addr, open, reported, probed, writing>>

\* The candidates are the names given that are in scope.
StartLookups(names) ==
  /\ AllowHost(scope, target.host)
  /\ StartPool({h \in names : AllowHost(scope, h)})
  /\ pc' = "lookups"
  /\ ips' = [h \in Host |-> {}]
  /\ UNCHANGED <<db, runs, exit, cancelled, scope, target, addr, open, reported, probed, writing>>

\* Providers may fail or know any names; the word list is what it is.
Discover == Enter("discover") /\ \E hits \in SUBSET Host : StartLookups(hits)
BruteForce == Enter("brute") /\ StartLookups(Wordlist)

LookupBegins(h) ==
  /\ pc = "lookups" /\ Pool!Begin(h)
  /\ UNCHANGED <<db, process, pc, found, writing>>

\* LookupA fails and the worker returns, or it answers.
LookupFails(h) ==
  /\ pc = "lookups" /\ Pool!End(h)
  /\ UNCHANGED <<db, process, pc, found, writing>>

LookupAnswers(h, answer) ==
  /\ pc = "lookups" /\ Pool!End(h)
  /\ ips' = [ips EXCEPT ![h] = answer]
  /\ scope' = LearnIPs(scope, h, answer)
  /\ UNCHANGED <<db, runs, plan, phase, exit, cancelled, target, addr, pc, open, reported, probed,
                 writing>>

\* Mutant: every candidate of the word list is a finding, resolved or not.
Candidates == waiting \union finished

\* Discover reports its candidates, BruteForce those that resolve.
Findings ==
  {h \in waiting \union finished : phase = "discover" \/ ips[h] # {}}

LookupsEnd ==
  /\ pc = "lookups" /\ Pool!Return
  /\ todo' = Findings
  /\ reported' = reported \union {[module |-> phase, host |-> h, ips |-> ips[h]] : h \in Findings}
  /\ pc' = "domain"
  /\ UNCHANGED <<db, process, ips, open, probed, cur, ipsLeft, at>>

------------------------------------------------------------------------------
(* runDiscover and runBrute write their findings. *)

\* UpsertAsset with in_scope true, as every caller has it: an asset that is
\* there keeps its verdict, and the new value its say on `resolved'.
Upsert(a, resolved) ==
  assets' = [assets EXCEPT ![a] = [inScope |-> IF @ = Absent THEN TRUE ELSE @.inScope,
                                   resolved |-> resolved]]

Domain == <<"domain", target.host>>
HostAsset == <<"hostname", cur>>

StoreDomain ==
  /\ Executed("domain")
  /\ Upsert(Domain, FALSE)
  /\ pc' = "hosts"
  /\ UNCHANGED <<edges, prov, process, pool, found, writing>>

\* persistHostname: the host, its provenance, the edge from its domain ...
StoreHost(h) ==
  /\ Executed("hosts") /\ h \in todo
  /\ Upsert(<<"hostname", h>>, ips[h] # {})
  /\ cur' = h /\ ipsLeft' = ips[h]
  /\ pc' = "prov"
  /\ UNCHANGED <<edges, prov, process, pool, found, todo, at>>

\* Mutant: module and source are swapped in the call.
SourceForModule ==
  /\ Executed("prov")
  /\ prov' = prov \union {<<HostAsset, "crt.sh">>}
  /\ pc' = "link"
  /\ UNCHANGED <<assets, edges, process, pool, found, writing>>

StoreProvenance ==
  /\ Executed("prov")
  /\ prov' = prov \union {<<HostAsset, phase>>}
  /\ pc' = "link"
  /\ UNCHANGED <<assets, edges, process, pool, found, writing>>

\* Where persistHostname goes when these addresses are left.
NextAddress(left) ==
  /\ ipsLeft' = left
  /\ pc' = IF left = {} THEN "hosts" ELSE "ips"
  /\ todo' = IF left = {} THEN todo \ {cur} ELSE todo

StoreSubdomain ==
  /\ Executed("link")
  /\ edges' = edges \union {<<Domain, "HAS_SUBDOMAIN", HostAsset>>}
  /\ NextAddress(ipsLeft)
  /\ UNCHANGED <<assets, prov, process, pool, found, cur, at>>

Address(i) == <<"ip", i>>
ResolvesTo(i) == <<HostAsset, "RESOLVES_TO", Address(i)>>

\* Mutant: the edge to an address is written before the address.
EdgeFirst(i) ==
  /\ Executed("ips") /\ i \in ipsLeft
  /\ edges' = edges \union {ResolvesTo(i)}
  /\ at' = i
  /\ pc' = "resolves"
  /\ UNCHANGED <<assets, prov, process, pool, found, todo, cur, ipsLeft>>

\* ... then each address and the edge to it.
StoreAddress(i) ==
  /\ Executed("ips") /\ i \in ipsLeft
  /\ Upsert(Address(i), FALSE)
  /\ at' = i
  /\ pc' = "resolves"
  /\ UNCHANGED <<edges, prov, process, pool, found, todo, cur, ipsLeft>>

StoreResolvesTo ==
  /\ Executed("resolves")
  /\ edges' = edges \union {ResolvesTo(at)}
  /\ NextAddress(ipsLeft \ {at})
  /\ UNCHANGED <<assets, prov, process, pool, found, cur, at>>

Written(place) ==
  /\ pc = place /\ todo = {} /\ pc' = "phase"
  /\ UNCHANGED <<db, process, pool, found, writing>>

HostsWritten == Written("hosts")

------------------------------------------------------------------------------
(* runPortScan. *)

\* The target does not resolve, is out of scope, or the ports do not parse.
PortsRefused == PhaseFails("ports")

\* Mutant: the scope is told of the address and not asked about it.
StartUnasked(ip, s) ==
  /\ scope' = s /\ addr' = ip
  /\ StartPool(Port)
  /\ pc' = "probes" /\ open' = {}
  /\ UNCHANGED <<db, runs, exit, cancelled, target, ips, reported, probed, writing>>

StartProbes(ip, s) ==
  /\ AllowIP(s, ip)
  /\ scope' = s /\ addr' = ip
  /\ StartPool(Port)
  /\ pc' = "probes" /\ open' = {}
  /\ UNCHANGED <<db, runs, exit, cancelled, target, ips, reported, probed, writing>>

\* An address given as the target, or the first of those its name resolves to;
\* LearnIP tells the scope about that one before AllowIP is asked.
ScanPorts ==
  /\ Enter("ports")
  /\ IF target.ip # NoIP THEN StartProbes(target.ip, scope)
     ELSE \E answer \in Answers : \E first \in answer :
            StartProbes(first, LearnIPs(scope, target.host, {first}))

ProbeBegins(p) ==
  /\ pc = "probes" /\ Pool!Begin(p)
  /\ UNCHANGED <<db, process, pc, found, writing>>

\* The limiter returns the ctx's error and the port is left out.
ProbeDropped(p) ==
  /\ pc = "probes" /\ Pool!End(p) /\ cancelled
  /\ UNCHANGED <<db, process, pc, found, writing>>

\* The dial is made: the port is open, or it is closed, filtered or unknown.
Probed(p, result) ==
  /\ pc = "probes" /\ Pool!End(p)
  /\ open' = IF result = "open" THEN open \union {p} ELSE open
  /\ probed' = probed \union {addr}
  /\ UNCHANGED <<db, process, pc, ips, reported, writing>>

ProbesEnd ==
  /\ pc = "probes" /\ Pool!Return
  /\ todo' = open
  /\ pc' = "ports"
  /\ UNCHANGED <<db, process, found, cur, ipsLeft, at>>

PortAsset(p) == <<"port", <<addr, p>>>>

StorePort(p) ==
  /\ Executed("ports") /\ p \in todo
  /\ Upsert(PortAsset(p), FALSE)
  /\ todo' = todo \ {p}
  /\ UNCHANGED <<edges, prov, process, pc, pool, found, cur, ipsLeft, at>>

PortsWritten == Written("ports")

------------------------------------------------------------------------------
(* The whole. *)

\* runScan returns.
Done ==
  /\ pc = "phase" /\ plan = <<>> /\ Exit("ok")
  /\ UNCHANGED <<db, runs, plan, phase, cancelled, scope, target, addr, pool, found, writing>>

PhaseBegins ==
  DiscoverRefused \/ BruteRefused \/ PortsRefused \/ Discover \/ BruteForce \/ ScanPorts \/ Done

Worker ==
  \/ \E h \in Host : \/ LookupBegins(h) \/ LookupFails(h)
                     \/ \E answer \in Answers : LookupAnswers(h, answer)
  \/ \E p \in Port : \/ ProbeBegins(p) \/ ProbeDropped(p)
                     \/ \E result \in {"open", "not open"} : Probed(p, result)

Writing ==
  \/ CreateProject \/ StoreDomain \/ StoreProvenance \/ StoreSubdomain \/ StoreResolvesTo
  \/ \E h \in Host : StoreHost(h)
  \/ \E i \in IP : StoreAddress(i)
  \/ \E p \in Port : StorePort(p)
  \/ HostsWritten \/ PortsWritten \/ StatementFails

Work == PhaseBegins \/ Worker \/ LookupsEnd \/ ProbesEnd \/ Writing

Next ==
  \/ Work \/ Cancel \/ Kill
  \/ \E t \in Targets, p \in Plans : Start(t, p)

\* A process that can take a step does: its lookups and probes return (modules
\* Resolver and RateLimiter; a dial has a timeout) and so do its statements.
Spec == Init /\ [][Next]_vars /\ WF_vars(Work)

------------------------------------------------------------------------------
(* Properties. *)

TypeOK ==
  /\ assets \in [AssetIds -> Row \union {Absent}]
  /\ edges \subseteq AssetIds \X {"HAS_SUBDOMAIN", "RESOLVES_TO"} \X AssetIds
  /\ prov \subseteq AssetIds \X {"discover", "brute"}
  /\ runs \in 0..MaxRuns /\ pc \in Places
  /\ phase \in {"none", "discover", "brute", "ports"}
  /\ exit \in {"none", "ok", "error", "killed"}
  /\ cancelled \in BOOLEAN /\ addr \in IP \union {NoIP}
  /\ waiting \union running \union finished \subseteq Host \union Port
  /\ ips \in [Host -> SUBSET IP] /\ open \subseteq Port
  /\ todo \subseteq Host \union Port /\ ipsLeft \subseteq IP

\* Nothing in the database refers to an asset that is not in it, although no
\* foreign key says so and a run may be stopped between any two statements.
NothingDangles ==
  /\ \A e \in edges : e[1] \in Stored /\ e[3] \in Stored
  /\ \A p \in prov : p[1] \in Stored

\* The database has all that persistHostname writes of a finding.
HasFinding(f) ==
  LET asset == <<"hostname", f.host>>
  IN  /\ asset \in Stored /\ <<asset, f.module>> \in prov
      /\ <<Domain, "HAS_SUBDOMAIN", asset>> \in edges
      /\ \A i \in f.ips : Address(i) \in Stored /\ <<asset, "RESOLVES_TO", Address(i)>> \in edges

\* A scan that exits with 0 has stored all it found, whatever was there before:
\* what an earlier run left half written is completed.
SuccessIsComplete ==
  exit = "ok" =>
    /\ Domain \in Stored \/ reported = {}
    /\ \A f \in reported : HasFinding(f)
    /\ \A p \in open : PortAsset(p) \in Stored

\* After such a scan a host it found is marked as resolved just when one of its
\* phases resolved it: the phases do not undo each other's verdict.
ResolvedIsCurrent ==
  exit = "ok" =>
    \A f \in reported :
      assets[<<"hostname", f.host>>].resolved <=>
        \E g \in reported : g.host = f.host /\ g.ips # {}

\* No address that the configuration excludes is ever dialled, and none but the
\* target's own, one of a target name that is in scope, or one that is included.
ProbesInScope ==
  \A i \in probed :
    /\ ~ExcludedIP(NewScope(Config), i)
    /\ \/ i = target.ip
       \/ AllowHost(scope, target.host)
       \/ AllowIP(NewScope(Config), i)

\* A host that the rules of a scan exclude, or do not include, is not looked up as
\* a candidate of it.  Nor is it stored by it, or linked to its target, and that is
\* seen in the database, which a scan of another target may have been writing
\* before: what is below a domain was in scope for a scan of that domain, and what
\* is stored was for a scan of some target.
HostsInScope ==
  /\ pc = "lookups" =>
       \A h \in waiting \union running \union finished : AllowHost(ScopeOf(target), h)
  /\ \A h \in Host : <<"hostname", h>> \in Stored =>
       \E t \in Targets : AllowHost(ScopeOf(t), h)
  /\ \A d, h \in Host :
       <<<<"domain", d>>, "HAS_SUBDOMAIN", <<"hostname", h>>>> \in edges =>
         \E t \in Targets : t.host = d /\ AllowHost(ScopeOf(t), h)

\* A run that has started exits.
RunEnds == [](pc # "exited" => <>(pc = "exited"))

------------------------------------------------------------------------------
(* What the repository says and the code does not do. *)

\* docs/DATA_MODEL.md:39-40: "Every asset stores the scope verdict at insert
\* time (`in_scope`), so out-of-scope discoveries are recorded".
VerdictIsScope ==
  \A i \in IP : Address(i) \in Stored /\ ExcludedIP(NewScope(Config), i) =>
    ~assets[Address(i)].inScope

==============================================================================
