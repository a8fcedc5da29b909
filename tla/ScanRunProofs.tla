----------------------------- MODULE ScanRunProofs ----------------------------
(***************************************************************************)
(* The safety of nett scan for any hosts, addresses, ports, flags, scope   *)
(* and answers, and any number of runs over one database.                  *)
(*                                                                         *)
(* What is true of the database at every moment (NothingDangles) and at    *)
(* the end (SuccessIsComplete) rests on the order of the statements, so    *)
(* the invariant says what has been written when the process is at a       *)
(* place: Placed and Halfway for the host it is writing, Accounted for all *)
(* it has found.  What is true of the scope rests on rules that no step of *)
(* a run changes (ScopeInv) and on the candidates that were filtered by    *)
(* them (Filtered).  That the phases do not undo each other's verdict      *)
(* (ResolvedIsCurrent) rests on -d coming before all that it could undo    *)
(* (PlanInv), and on -brute reporting only what resolves (FoundNow).       *)
(***************************************************************************)
EXTENDS ScanRun, TLAPS

N == NewScope(Config)

HostPlaces == {"prov", "link", "ips", "resolves"}     \* within persistHostname
DomainPlaces == {"hosts"} \union HostPlaces
FindingPlaces == {"domain"} \union DomainPlaces

Types ==
  /\ target \in Targets /\ (pc = "exited" \/ exit = "none")
  /\ pc \in {"lookups"} \union FindingPlaces => phase \in {"discover", "brute"}
  /\ pc \in {"probes", "ports"} => addr \in IP
  /\ pc \in HostPlaces => cur \in Host /\ cur \in todo /\ ipsLeft \subseteq ips[cur]
  /\ pc = "resolves" => at \in ipsLeft

\* The rules are those of the configuration and the target; addresses are learned
\* for a target that is in scope.
ScopeInv ==
  /\ scope = [ips |-> scope.ips, cidrs |-> N.cidrs, domains |-> scope.domains,
              wildcards |-> N.wildcards, excludeIPs |-> N.excludeIPs,
              excludeCIDRs |-> N.excludeCIDRs, excludeDomains |-> N.excludeDomains,
              excludeWild |-> N.excludeWild, dynamic |-> scope.dynamic]
  /\ scope.ips \subseteq N.ips \union {target.ip}
  /\ scope.domains \subseteq ScopeOf(target).domains
  /\ scope.dynamic # {} \/ pc = "lookups" => AllowHost(scope, target.host)
  /\ pc = "probes" => AllowIP(scope, addr)

Filtered ==
  /\ pc = "lookups" =>
       \A h \in waiting \union running \union finished : AllowHost(ScopeOf(target), h)
  /\ pc \in FindingPlaces => \A h \in todo : AllowHost(ScopeOf(target), h)

\* What there is to refer to when a row is written that does.
Placed ==
  /\ pc \in DomainPlaces => Domain \in Stored
  /\ pc \in HostPlaces => HostAsset \in Stored
  /\ pc = "resolves" => Address(at) \in Stored

\* What there is of the host that is being written.
Halfway ==
  /\ pc \in {"link", "ips", "resolves"} => <<HostAsset, phase>> \in prov
  /\ pc \in {"ips", "resolves"} => <<Domain, "HAS_SUBDOMAIN", HostAsset>> \in edges
  /\ pc \in HostPlaces =>
       \A i \in ips[cur] \ ipsLeft : Address(i) \in Stored /\ ResolvesTo(i) \in edges

\* A finding that is still to be written, or whose writing has begun.
Owed(f) ==
  pc \in FindingPlaces /\ f.module = phase /\ f.host \in todo /\ f.ips = ips[f.host]

Failed == pc = "exited" /\ exit # "ok"

Accounted ==
  Failed \/ /\ \A f \in reported : HasFinding(f) \/ Owed(f)
            /\ reported = {} \/ pc = "domain" \/ Domain \in Stored
            /\ \A p \in open : \/ PortAsset(p) \in Stored
                               \/ pc = "probes"
                               \/ pc = "ports" /\ p \in todo

\* Before -d begins nothing has been reported, and once it has it does not again.
PlanInv ==
  /\ plan \in Seq({"discover", "brute", "ports"})
  /\ phase = "none" => reported = {} /\ \A i \in DOMAIN plan : plan[i] = "discover" => i = 1
  /\ phase # "none" => \A i \in DOMAIN plan : plan[i] # "discover"
  /\ pc = "lookups" => /\ waiting \union running \union finished \subseteq Host
                       /\ phase = "discover" => reported = {}

\* What is to be written has been reported, and what it was reported with.
FoundNow ==
  /\ \A f \in reported : f.host \in Host
  /\ pc \in FindingPlaces =>
       /\ \A h \in todo : [module |-> phase, host |-> h, ips |-> ips[h]] \in reported
       /\ phase = "discover" => \A f \in reported : f.ips = ips[f.host]
       /\ phase = "brute" => \A h \in todo : ips[h] # {}

\* The hosts with a row that this phase has yet to write.
Unwritten ==
  IF pc \in HostPlaces THEN todo \ {cur} ELSE IF pc \in {"domain", "hosts"} THEN todo ELSE {}

IsResolved(h) == \E f \in reported : f.host = h /\ f.ips # {}

Verdicts ==
  Failed \/ \A f \in reported :
              \/ f.host \in Unwritten
              \/ assets[<<"hostname", f.host>>].resolved <=> IsResolved(f.host)

IInv ==
  /\ TypeOK /\ Types /\ ScopeInv /\ Filtered /\ NothingDangles /\ Placed /\ Halfway /\ Accounted
  /\ ProbesInScope /\ HostsInScope /\ PlanInv /\ FoundNow /\ Verdicts
------------------------------------------------------------------------------
(* The steps, put together by what they leave alone. *)

\* A worker's steps that leave no trace but in the pool.
Unseen ==
  \/ \E h \in Host : LookupBegins(h) \/ LookupFails(h)
  \/ \E p \in Port : ProbeBegins(p) \/ ProbeDropped(p)

\* The process ends without success.
Breaks == DiscoverRefused \/ BruteRefused \/ PortsRefused \/ StatementFails \/ Kill

LookupsStart ==
  \E p \in {"discover", "brute"}, names \in SUBSET Host : Enter(p) /\ StartLookups(names)

Starts == \E t \in Targets, p \in Plans : Start(t, p)
Answer == \E h \in Host, answer \in Answers : LookupAnswers(h, answer)
Probe == \E p \in Port, result \in {"open", "not open"} : Probed(p, result)

\* The statements, each with what is true when it is executed.
Stores ==
  \/ StoreDomain \/ StoreProvenance \/ StoreSubdomain \/ StoreResolvesTo
  \/ \E h \in Host : StoreHost(h)
  \/ \E i \in IP : StoreAddress(i)
  \/ \E p \in Port : StorePort(p)

\* From one place to another.
Moves == Cancel \/ CreateProject \/ HostsWritten \/ PortsWritten \/ Done

LEMMA NextSteps ==
  ASSUME Next
  PROVE  \/ Unseen \/ Breaks \/ LookupsStart \/ Starts \/ Answer \/ Probe \/ Stores \/ Moves
         \/ ScanPorts \/ LookupsEnd \/ ProbesEnd
  <1>1. ASSUME Discover \/ BruteForce PROVE LookupsStart
    BY <1>1, ScanAssumption DEF Discover, BruteForce, LookupsStart
  <1> QED
    BY <1>1 DEF Next, Work, PhaseBegins, Worker, Writing, Unseen, Breaks, Starts, Answer, Probe,
                Stores, Moves

LEMMA UnseenSteps ==
  ASSUME Unseen
  PROVE  /\ pc \in {"lookups", "probes"}
         /\ UNCHANGED <<assets, edges, prov, runs, plan, phase, exit, cancelled, scope, target,
                        addr, pc, ips, open, reported, probed, todo, cur, ipsLeft, at>>
         /\ waiting' \union running' \union finished'
              \subseteq waiting \union running \union finished
  <1>1. ASSUME NEW x, Pool!Begin(x) \/ Pool!End(x)
        PROVE  waiting' \union running' \union finished'
                 \subseteq waiting \union running \union finished
    BY <1>1 DEF Pool!Begin, Pool!End
  <1> QED
    BY <1>1 DEF Unseen, LookupBegins, LookupFails, ProbeBegins, ProbeDropped, db, process, found,
                writing

LEMMA BreakSteps ==
  ASSUME Breaks
  PROVE  /\ pc' = "exited" /\ exit' \in {"error", "killed"}
         /\ UNCHANGED <<assets, edges, prov, runs, cancelled, scope, target, addr, waiting,
                        running, finished, ips, open, reported, probed, todo, cur, ipsLeft, at>>
         /\ phase' \in {phase, "discover", "brute", "ports"}
  BY DEF Breaks, DiscoverRefused, BruteRefused, PortsRefused, PhaseFails, StatementFails, Kill,
         Exit, Enter, db, pool, found, writing

LEMMA MoveSteps ==
  ASSUME Moves
  PROVE  /\ UNCHANGED <<assets, edges, prov, runs, scope, phase, target, addr, waiting,
                        running, finished, ips, open, reported, probed, todo, cur, ipsLeft, at>>
         /\ \/ pc' = pc /\ exit' = exit /\ cancelled' = TRUE /\ pc # "exited"
            \/ /\ pc' = "phase" /\ exit' = exit /\ cancelled' = cancelled
               /\ pc = "project" \/ (pc \in {"hosts", "ports"} /\ todo = {})
            \/ pc = "phase" /\ pc' = "exited" /\ exit' = "ok" /\ cancelled' = cancelled
  BY DEF Moves, Cancel, CreateProject, HostsWritten, PortsWritten, Done, Written, Executed, Exit,
         db, process, pool, found, writing

LEMMA Ids ==
  /\ \A h \in Host : <<"domain", h>> \in AssetIds /\ <<"hostname", h>> \in AssetIds
  /\ \A i \in IP : Address(i) \in AssetIds
  /\ \A i \in IP, p \in Port : <<"port", <<i, p>>>> \in AssetIds
  BY DEF AssetIds, Address

LEMMA OfTarget ==
  ASSUME Types
  PROVE  target.host \in Host /\ target.ip \in IP \union {NoIP} /\ Domain \in AssetIds
  BY ScanAssumption, Ids DEF Types, Domain

LEMMA Upserted ==
  ASSUME TypeOK, NEW a \in AssetIds, NEW r \in BOOLEAN, Upsert(a, r)
  PROVE  assets' \in [AssetIds -> Row \union {Absent}] /\ Stored' = Stored \union {a}
  <1> DEFINE new == [inScope |-> IF assets[a] = Absent THEN TRUE ELSE assets[a].inScope,
                     resolved |-> r]
  <1>1. assets' = [assets EXCEPT ![a] = new]
    BY DEF Upsert
  <1>2. new \in Row
    BY DEF TypeOK, Row
  <1>3. new # Absent
    BY <1>2, ScanAssumption DEF Row
  <1> HIDE DEF new
  <1>4. assets' \in [AssetIds -> Row \union {Absent}]
    BY <1>1, <1>2 DEF TypeOK
  <1>5. \A b \in AssetIds : assets'[b] = IF b = a THEN new ELSE assets[b]
    BY <1>1 DEF TypeOK
  <1> QED
    BY <1>3, <1>4, <1>5 DEF Stored

\* What each statement does, given what is known of its place.
LEMMA StoreSteps ==
  ASSUME TypeOK, Types, Stores
  PROVE  /\ assets' \in [AssetIds -> Row \union {Absent}]
         /\ Stored \subseteq Stored' /\ edges \subseteq edges' /\ prov \subseteq prov'
         /\ UNCHANGED <<runs, plan, phase, exit, cancelled, scope, target, addr, waiting,
                        running, finished, ips, open, reported, probed>>
         /\ ~cancelled
  <1>1. CASE StoreDomain
    BY <1>1, OfTarget, Upserted
       DEF StoreDomain, Executed, process, pool, found
  <1>2. CASE StoreProvenance
    BY <1>2 DEF StoreProvenance, Executed, process, pool, found, TypeOK, Stored
  <1>3. CASE StoreSubdomain
    BY <1>3 DEF StoreSubdomain, Executed, process, pool, found, TypeOK, Stored
  <1>4. CASE StoreResolvesTo
    BY <1>4 DEF StoreResolvesTo, Executed, process, pool, found, TypeOK, Stored
  <1>5. CASE \E h \in Host : StoreHost(h)
    BY <1>5, Ids, Upserted DEF StoreHost, Executed, process, pool, found
  <1>6. CASE \E i \in IP : StoreAddress(i)
    BY <1>6, Ids, Upserted DEF StoreAddress, Executed, process, pool, found
  <1>7. CASE \E p \in Port : StorePort(p)
    BY <1>7, Ids, Upserted DEF StorePort, PortAsset, Types, Executed, process, pool, found
  <1> QED
    BY <1>1, <1>2, <1>3, <1>4, <1>5, <1>6, <1>7 DEF Stores
------------------------------------------------------------------------------
(* Types. *)

LEMMA NoAddresses == [h \in Host |-> {}] \in [Host -> SUBSET IP]
  OBVIOUS

LEMMA InitTypes == Init => TypeOK /\ Types
  <1> SUFFICES ASSUME Init PROVE TypeOK /\ Types
    OBVIOUS
  <1> USE DEF Init, Places, Statements, FindingPlaces, DomainPlaces, HostPlaces
  <1>1. assets \in [AssetIds -> Row \union {Absent}]
    OBVIOUS
  <1>2. runs \in 0..MaxRuns
    BY ScanAssumption
  <1>3. Types
    BY DEF Types
  <1>4. ips \in [Host -> SUBSET IP]
    BY NoAddresses
  <1> QED
    BY <1>1, <1>2, <1>3, <1>4 DEF TypeOK

LEMMA StoresTypes ==
  ASSUME TypeOK, Types, Stores
  PROVE  TypeOK' /\ Types'
  <1> USE StoreSteps DEF Executed, Places, Statements, FindingPlaces, DomainPlaces, HostPlaces
  <1>1. /\ target' \in Targets /\ addr' \in IP \union {NoIP} /\ ips' \in [Host -> SUBSET IP]
        /\ phase' = phase /\ cur \in Host => ips[cur] \subseteq IP
    BY DEF Types, TypeOK
  <1>2. TypeOK' /\ Types'
    <2>1. CASE StoreDomain
      BY <2>1 DEF StoreDomain, TypeOK, Types, writing
    <2>2. CASE StoreProvenance
      <3>1. HostAsset \in AssetIds /\ phase \in {"discover", "brute"}
        BY <2>2, Ids DEF StoreProvenance, Types, HostAsset
      <3> QED
        BY <2>2, <3>1 DEF StoreProvenance, TypeOK, Types, writing
    <2>3. CASE StoreSubdomain
      <3>1. HostAsset \in AssetIds /\ Domain \in AssetIds
        BY <2>3, Ids, OfTarget DEF StoreSubdomain, Types, HostAsset
      <3> QED
        BY <2>3, <3>1 DEF StoreSubdomain, NextAddress, TypeOK, Types
    <2>4. CASE StoreResolvesTo
      <3>1. HostAsset \in AssetIds /\ Address(at) \in AssetIds
        BY <2>4, Ids DEF StoreResolvesTo, Types, TypeOK, HostAsset
      <3> QED
        BY <2>4, <3>1 DEF StoreResolvesTo, ResolvesTo, NextAddress, TypeOK, Types
    <2>5. CASE \E h \in Host : StoreHost(h)
      BY <2>5 DEF StoreHost, TypeOK, Types
    <2>6. CASE \E i \in IP : StoreAddress(i)
      BY <2>6 DEF StoreAddress, TypeOK, Types
    <2>7. CASE \E p \in Port : StorePort(p)
      BY <2>7 DEF StorePort, TypeOK, Types
    <2> QED
      BY <2>1, <2>2, <2>3, <2>4, <2>5, <2>6, <2>7 DEF Stores
  <1> QED
    BY <1>2

LEMMA TypesStep ==
  ASSUME TypeOK, Types, Next
  PROVE  TypeOK' /\ Types'
  <1> USE DEF Places, Statements, FindingPlaces, DomainPlaces, HostPlaces
  <1>1. CASE Unseen
    BY <1>1, UnseenSteps DEF TypeOK, Types
  <1>2. CASE Breaks
    BY <1>2, BreakSteps DEF TypeOK, Types
  <1>3. CASE LookupsStart
    BY <1>3 DEF LookupsStart, Enter, StartLookups, StartPool, TypeOK, Types, db, writing
  <1>4. CASE Starts
    <2>1. PICK t \in Targets, p \in Plans : Start(t, p)
      BY <1>4 DEF Starts
    <2>2. runs' \in 0..MaxRuns
      BY <2>1, ScanAssumption DEF Start, TypeOK
    <2>3. t.ip \in IP \union {NoIP}
      BY ScanAssumption
    <2>4. ips' \in [Host -> SUBSET IP]
      BY <2>1, NoAddresses DEF Start
    <2> QED
      BY <2>1, <2>2, <2>3, <2>4 DEF Start, TypeOK, Types, db
  <1>5. CASE Answer
    <2>1. PICK h \in Host, answer \in Answers : LookupAnswers(h, answer)
      BY <1>5 DEF Answer
    <2>2. waiting' \union running' \union finished' \subseteq waiting \union running \union finished
      BY <2>1 DEF LookupAnswers, Pool!End
    <2>3. ips' \in [Host -> SUBSET IP]
      BY <2>1, ScanAssumption DEF LookupAnswers, TypeOK
    <2> QED
      BY <2>1, <2>2, <2>3 DEF LookupAnswers, TypeOK, Types, db, writing
  <1>6. CASE Probe
    <2>1. PICK p \in Port, result \in {"open", "not open"} : Probed(p, result)
      BY <1>6 DEF Probe
    <2>2. waiting' \union running' \union finished' \subseteq waiting \union running \union finished
      BY <2>1 DEF Probed, Pool!End
    <2> QED
      BY <2>1, <2>2 DEF Probed, TypeOK, Types, db, process, writing
  <1>7. CASE Stores
    BY <1>7, StoresTypes
  <1>8. CASE Moves
    BY <1>8, MoveSteps DEF TypeOK, Types
  <1>9. CASE ScanPorts
    <2>1. PICK ip \in IP : \E s : StartProbes(ip, s)
      BY <1>9, OfTarget, ScanAssumption DEF ScanPorts
    <2> QED
      BY <1>9, <2>1 DEF ScanPorts, Enter, StartProbes, StartPool, TypeOK, Types, db, writing
  <1>10. CASE LookupsEnd
    BY <1>10 DEF LookupsEnd, Pool!Return, Findings, TypeOK, Types, db, process
  <1>11. CASE ProbesEnd
    BY <1>11 DEF ProbesEnd, Pool!Return, TypeOK, Types, db, process, found
  <1> QED
    BY <1>1, <1>2, <1>3, <1>4, <1>5, <1>6, <1>7, <1>8, <1>9, <1>10, <1>11, NextSteps
------------------------------------------------------------------------------
(* The scope. *)

\* What a scope of a run and that of the configuration alone say of exclusion.
LEMMA RulesStay ==
  ASSUME ScopeInv
  PROVE  /\ \A h : ExcludedHost(scope, h) <=> ExcludedHost(N, h)
         /\ \A i : ExcludedIP(scope, i) <=> ExcludedIP(N, i)
  BY DEF ScopeInv, ExcludedHost, ExcludedIP

\* The rules of a scan: its target is all that they add to the configuration.
LEMMA RulesOf ==
  ASSUME NEW t
  PROVE  /\ ScopeOf(t) = [ips |-> ScopeOf(t).ips, cidrs |-> N.cidrs,
                          domains |-> ScopeOf(t).domains,
                          wildcards |-> N.wildcards, excludeIPs |-> N.excludeIPs,
                          excludeCIDRs |-> N.excludeCIDRs, excludeDomains |-> N.excludeDomains,
                          excludeWild |-> N.excludeWild, dynamic |-> {}]
         /\ ScopeOf(t).ips \subseteq N.ips \union {t.ip}
         /\ N.domains \subseteq ScopeOf(t).domains
  BY DEF ScopeOf, AddIP, AddDomain, N, NewScope

\* What the process allows is in scope for a scan of its target.
LEMMA AllowedForTarget ==
  ASSUME ScopeInv, NEW h, AllowHost(scope, h)
  PROVE  AllowHost(ScopeOf(target), h)
  <1>1. ~ExcludedHost(ScopeOf(target), h)
    BY RulesStay, RulesOf DEF AllowHost, ExcludedHost
  <1>2. MatchedHost(h, ScopeOf(target).domains, ScopeOf(target).wildcards)
    BY RulesOf DEF AllowHost, ScopeInv, MatchedHost
  <1> QED
    BY <1>1, <1>2 DEF AllowHost

\* What AllowHost says does not depend on the addresses.
LEMMA AddressesAside ==
  ASSUME ScopeInv, NEW D
  PROVE  \A h : AllowHost([scope EXCEPT !.dynamic = D], h) <=> AllowHost(scope, h)
  BY DEF ScopeInv, AllowHost, ExcludedHost

LEMMA Learnt ==
  ASSUME ScopeInv, NEW h, NEW I, AllowHost(scope, target.host)
  PROVE  /\ \E D : LearnIPs(scope, h, I) = [scope EXCEPT !.dynamic = D]
         /\ AllowHost(LearnIPs(scope, h, I), target.host)
  <1>1. \E D : LearnIPs(scope, h, I) = [scope EXCEPT !.dynamic = D]
    <2>1. scope = [scope EXCEPT !.dynamic = scope.dynamic]
      BY DEF ScopeInv
    <2> QED
      BY <2>1 DEF LearnIPs
  <1> QED
    BY <1>1, AddressesAside

\* A scope that has only learned keeps its part of the invariant.
LEMMA StillScope ==
  ASSUME ScopeInv, NEW D, scope' = [scope EXCEPT !.dynamic = D], target' = target,
         AllowHost(scope, target.host), pc' = "probes" => AllowIP(scope, addr)'
  PROVE  ScopeInv'
  <1>1. AllowHost(scope', target.host)
    BY AddressesAside
  <1>2. AllowHost(scope, target.host)'
    BY <1>1
  <1> QED
    BY <1>2 DEF ScopeInv

LEMMA InitScope == Init => ScopeInv
  BY RulesOf DEF Init, ScopeInv, N, NewScope

LEMMA ScopeStep ==
  ASSUME TypeOK, Types, ScopeInv, Next
  PROVE  ScopeInv'
  <1>1. CASE Unseen
    BY <1>1, UnseenSteps DEF ScopeInv, AllowHost, ExcludedHost, AllowIP, ExcludedIP
  <1>2. CASE Breaks
    BY <1>2, BreakSteps DEF ScopeInv, AllowHost, ExcludedHost
  <1>3. CASE LookupsStart
    BY <1>3 DEF LookupsStart, StartLookups, ScopeInv, AllowHost, ExcludedHost
  <1>4. CASE Starts
    <2>1. PICK t \in Targets, p \in Plans : Start(t, p)
      BY <1>4 DEF Starts
    <2> QED
      BY <2>1, RulesOf DEF Start, ScopeInv
  <1>5. CASE Answer
    <2>1. PICK h \in Host, answer \in Answers : LookupAnswers(h, answer)
      BY <1>5 DEF Answer
    <2>2. PICK D : scope' = [scope EXCEPT !.dynamic = D]
      BY <2>1, Learnt DEF LookupAnswers, ScopeInv
    <2> QED
      BY <2>1, <2>2, StillScope DEF LookupAnswers, ScopeInv
  <1>6. CASE Probe
    <2>1. UNCHANGED <<scope, pc, target, addr>>
      BY <1>6 DEF Probe, Probed, process
    <2> QED
      BY <2>1 DEF ScopeInv, AllowHost, ExcludedHost, AllowIP, ExcludedIP
  <1>7. CASE Stores
    <2>1. pc' \notin {"lookups", "probes"}
      BY <1>7 DEF Stores, StoreDomain, StoreProvenance, StoreSubdomain, StoreResolvesTo, StoreHost,
                  StoreAddress, StorePort, NextAddress, Executed
    <2> QED
      BY <2>1, <1>7, StoreSteps DEF ScopeInv, AllowHost, ExcludedHost
  <1>8. CASE Moves
    BY <1>8, MoveSteps DEF ScopeInv, AllowHost, ExcludedHost, AllowIP, ExcludedIP
  <1>9. CASE ScanPorts
    <2>1. CASE target.ip # NoIP
      <3>1. StartProbes(target.ip, scope)
        BY <1>9, <2>1 DEF ScanPorts
      <3>2. scope' = scope /\ target' = target /\ pc' = "probes" /\ AllowIP(scope', addr')
        BY <3>1 DEF StartProbes
      <3>3. AllowIP(scope, addr)'
        BY <3>2
      <3> QED
        BY <3>2, <3>3 DEF ScopeInv, AllowHost, ExcludedHost
    <2>2. CASE target.ip = NoIP
      <3>1. PICK first : StartProbes(first, LearnIPs(scope, target.host, {first}))
        BY <1>9, <2>2 DEF ScanPorts
      <3>2. /\ scope' = LearnIPs(scope, target.host, {first})
            /\ target' = target /\ pc' = "probes" /\ AllowIP(scope', addr')
        BY <3>1 DEF StartProbes
      <3>3. AllowIP(scope, addr)'
        BY <3>2
      <3>4. CASE AllowHost(scope, target.host)
        BY <3>2, <3>3, <3>4, Learnt, StillScope
      <3>5. CASE ~AllowHost(scope, target.host)
        <4>1. scope' = scope
          BY <3>2, <3>5 DEF LearnIPs
        <4> QED
          BY <3>2, <3>3, <4>1 DEF ScopeInv, AllowHost, ExcludedHost
      <3> QED
        BY <3>4, <3>5
    <2> QED
      BY <2>1, <2>2
  <1>10. CASE LookupsEnd
    BY <1>10 DEF LookupsEnd, process, ScopeInv, AllowHost, ExcludedHost
  <1>11. CASE ProbesEnd
    BY <1>11 DEF ProbesEnd, process, ScopeInv, AllowHost, ExcludedHost
  <1> QED
    BY <1>1, <1>2, <1>3, <1>4, <1>5, <1>6, <1>7, <1>8, <1>9, <1>10, <1>11, NextSteps
\* Until the next run starts the target stays, and stays in scope.
LEMMA TargetStays ==
  ASSUME Types, TypeOK, ScopeInv, Next, ~Starts
  PROVE  /\ target' = target
         /\ AllowHost(scope, target.host) => AllowHost(scope, target.host)'
         /\ probed' = probed \/ Probe
  <1>1. target' = target /\ (probed' = probed \/ Probe)
    BY UnseenSteps, BreakSteps, MoveSteps, StoreSteps, NextSteps
       DEF LookupsStart, StartLookups, Answer, LookupAnswers, Probe, Probed, ScanPorts, StartProbes,
           LookupsEnd, ProbesEnd, process, found
  <1>2. \/ scope' = scope
        \/ \E h, I : scope' = LearnIPs(scope, h, I)
    BY UnseenSteps, BreakSteps, MoveSteps, StoreSteps, NextSteps
       DEF LookupsStart, StartLookups, Answer, LookupAnswers, Probe, Probed, ScanPorts, StartProbes,
           LookupsEnd, ProbesEnd, process
  <1>3. AllowHost(scope, target.host) => AllowHost(scope', target.host)
    BY <1>2, Learnt
  <1> QED
    BY <1>1, <1>3

LEMMA ProbesStep ==
  ASSUME TypeOK, Types, ScopeInv, ScopeInv', ProbesInScope, Next
  PROVE  ProbesInScope'
  <1>1. CASE Starts
    BY <1>1 DEF Starts, Start, ProbesInScope
  <1>2. CASE ~Starts
    <2> SUFFICES ASSUME NEW i \in probed'
                 PROVE  /\ ~ExcludedIP(N, i)
                        /\ \/ i = target'.ip
                           \/ AllowHost(scope, target.host)'
                           \/ AllowIP(N, i)
      BY DEF ProbesInScope, N
    <2>1. CASE i \in probed
      BY <1>2, <2>1, TargetStays DEF ProbesInScope, N
    <2>2. CASE i \notin probed
      <3>1. Probe
        BY <1>2, <2>2, TargetStays
      <3>2. i = addr /\ pc = "probes"
        BY <2>2, <3>1 DEF Probe, Probed
      <3>3. AllowIP(scope, i)
        BY <3>2 DEF ScopeInv
      <3>4. ~ExcludedIP(N, i)
        BY <3>3, RulesStay DEF AllowIP
      <3>5. i \in scope.ips \/ i \in scope.dynamic \/ i \in UNION N.cidrs
        BY <3>3 DEF AllowIP, ScopeInv
      <3>6. i = target.ip \/ i \in N.ips \/ i \in UNION N.cidrs \/ AllowHost(scope, target.host)
        BY <3>5 DEF ScopeInv
      <3> QED
        BY <1>2, <3>4, <3>6, TargetStays DEF AllowIP
    <2> QED
      BY <2>1, <2>2
  <1> QED
    BY <1>1, <1>2

\* The list of what is to be written only gets shorter while it is.
LEMMA ListShrinks ==
  ASSUME Stores
  PROVE  pc \in FindingPlaces \union {"ports"} /\ todo' \subseteq todo
         /\ (pc' \in FindingPlaces => pc \in FindingPlaces)
         /\ pc' \notin {"lookups", "probes", "phase", "exited"}
  BY DEF Stores, StoreDomain, StoreProvenance, StoreSubdomain, StoreResolvesTo, StoreHost,
         StoreAddress, StorePort, NextAddress, Executed, writing, FindingPlaces, DomainPlaces,
         HostPlaces

LEMMA FilteredStep ==
  ASSUME TypeOK, Types, ScopeInv, Filtered, Next
  PROVE  Filtered'
  <1> USE DEF FindingPlaces, DomainPlaces, HostPlaces
  <1>1. CASE Unseen
    BY <1>1, UnseenSteps DEF Filtered
  <1>2. CASE Breaks \/ Moves
    BY <1>2, BreakSteps, MoveSteps DEF Filtered
  <1>3. CASE LookupsStart
    <2>1. PICK names \in SUBSET Host : StartLookups(names)
      BY <1>3 DEF LookupsStart
    <2> QED
      BY <2>1, AllowedForTarget DEF StartLookups, StartPool, Filtered
  <1>4. CASE Starts \/ ScanPorts
    BY <1>4 DEF Starts, Start, ScanPorts, StartProbes, Filtered
  <1>5. CASE Answer
    BY <1>5 DEF Answer, LookupAnswers, Pool!End, Filtered
  <1>6. CASE Probe
    BY <1>6 DEF Probe, Probed, Filtered
  <1>7. CASE Stores
    BY <1>7, ListShrinks, StoreSteps DEF Filtered
  <1>8. CASE LookupsEnd
    BY <1>8 DEF LookupsEnd, Findings, process, Filtered
  <1>9. CASE ProbesEnd
    BY <1>9 DEF ProbesEnd, Filtered
  <1> QED
    BY <1>1, <1>2, <1>3, <1>4, <1>5, <1>6, <1>7, <1>8, <1>9, NextSteps

\* Only a statement changes the database.
LEMMA DatabaseStays ==
  ASSUME Next, ~Stores
  PROVE  UNCHANGED <<assets, edges, prov, Stored>>
  <1>1. UNCHANGED <<assets, edges, prov>>
    BY UnseenSteps, BreakSteps, MoveSteps, NextSteps
       DEF LookupsStart, StartLookups, Starts, Start, Answer, LookupAnswers, Probe, Probed,
           ScanPorts, StartProbes, LookupsEnd, ProbesEnd, db
  <1> QED
    BY <1>1 DEF Stored

LEMMA HostsStep ==
  ASSUME TypeOK, Types, Filtered, Filtered', HostsInScope, Next
  PROVE  HostsInScope'
  <1> DEFINE InScope(d, h) == \E t \in Targets : t.host = d /\ AllowHost(ScopeOf(t), h)
             Hosts == \A h \in Host : <<"hostname", h>> \in Stored =>
                        \E t \in Targets : AllowHost(ScopeOf(t), h)
             Links == \A d, h \in Host :
                        <<<<"domain", d>>, "HAS_SUBDOMAIN", <<"hostname", h>>>> \in edges =>
                          InScope(d, h)
  <1>1. (Hosts /\ Links)' => HostsInScope'
    BY DEF HostsInScope, Filtered
  <1>2. Hosts /\ Links
    BY DEF HostsInScope
  <1>3. Hosts'
    <2>1. CASE ~Stores
      BY <1>2, <2>1, DatabaseStays
    <2>2. ASSUME NEW a \in AssetIds, NEW r \in BOOLEAN, Upsert(a, r),
                 \A h \in Host : a = <<"hostname", h>> =>
                   \E t \in Targets : AllowHost(ScopeOf(t), h)
          PROVE  Hosts'
      BY <1>2, <2>2, Upserted
    <2>3. CASE StoreDomain
      BY <2>2, <2>3, OfTarget DEF StoreDomain, Domain
    <2>4. CASE StoreProvenance \/ StoreSubdomain \/ StoreResolvesTo
      BY <1>2, <2>4 DEF StoreProvenance, StoreSubdomain, StoreResolvesTo, Stored
    <2>5. ASSUME NEW h \in Host, StoreHost(h) PROVE Hosts'
      <3>1. AllowHost(ScopeOf(target), h) /\ target \in Targets
        BY <2>5 DEF StoreHost, Executed, Types, Filtered, FindingPlaces, DomainPlaces
      <3>2. <<"hostname", h>> \in AssetIds /\ Upsert(<<"hostname", h>>, ips[h] # {})
        BY <2>5, Ids DEF StoreHost
      <3> QED
        BY <2>2, <3>1, <3>2
    <2>6. CASE \E i \in IP : StoreAddress(i)
      BY <2>2, <2>6, Ids DEF StoreAddress, Address
    <2>7. CASE \E p \in Port : StorePort(p)
      BY <2>2, <2>7, Ids DEF StorePort, Executed, PortAsset, Types
    <2> QED
      BY <2>1, <2>3, <2>4, <2>5, <2>6, <2>7 DEF Stores
  <1>4. Links'
    <2>1. CASE UNCHANGED edges
      BY <1>2, <2>1
    <2>2. CASE StoreSubdomain
      <3>1. InScope(target.host, cur)
        BY <2>2 DEF StoreSubdomain, Executed, Types, Filtered, FindingPlaces, DomainPlaces,
                    HostPlaces
      <3>2. edges' = edges \union {<<<<"domain", target.host>>, "HAS_SUBDOMAIN",
                                     <<"hostname", cur>>>>}
        BY <2>2 DEF StoreSubdomain, Domain, HostAsset
      <3> HIDE DEF InScope
      <3>3. ASSUME NEW d \in Host, NEW h \in Host,
                   <<<<"domain", d>>, "HAS_SUBDOMAIN", <<"hostname", h>>>> \in edges'
            PROVE  InScope(d, h)
        BY <1>2, <3>1, <3>2, <3>3
      <3> QED
        BY <3>3 DEF InScope
    <2>3. CASE StoreResolvesTo
      <3>1. \A d, h : <<d, "HAS_SUBDOMAIN", h>> \in edges' => <<d, "HAS_SUBDOMAIN", h>> \in edges
        BY <2>3 DEF StoreResolvesTo, ResolvesTo
      <3> QED
        BY <1>2, <3>1
    <2>4. CASE Stores /\ ~StoreSubdomain /\ ~StoreResolvesTo
      BY <2>1, <2>4 DEF Stores, StoreDomain, StoreProvenance, StoreHost, StoreAddress, StorePort
    <2> QED
      BY <2>1, <2>2, <2>3, <2>4, DatabaseStays
  <1> QED
    BY <1>1, <1>3, <1>4
------------------------------------------------------------------------------
(* The order of the statements. *)

\* Steps that write nothing and end outside the places where something is written,
\* or stay where they are.
LEMMA PlacedStays ==
  ASSUME TypeOK, Types, Placed, Halfway, Next, ~Stores
  PROVE  Placed' /\ Halfway'
  <1> USE DatabaseStays DEF DomainPlaces, HostPlaces
  <1>1. \/ pc' \notin {"hosts", "prov", "link", "ips", "resolves"}
        \/ UNCHANGED <<pc, target, cur, at, phase, ips, ipsLeft>>
    BY UnseenSteps, BreakSteps, MoveSteps, NextSteps
       DEF LookupsStart, StartLookups, Starts, Start, Answer, LookupAnswers, Probe, Probed,
           ScanPorts, StartProbes, LookupsEnd, ProbesEnd, process, writing
  <1> QED
    BY <1>1 DEF Placed, Halfway, Domain, HostAsset, Address, ResolvesTo

LEMMA PlacedStep ==
  ASSUME TypeOK, Types, Placed, Halfway, Stores
  PROVE  Placed' /\ Halfway'
  <1> USE DEF DomainPlaces, HostPlaces, Executed
  <1>0. Domain' = Domain /\ phase' = phase /\ ips' = ips
    BY StoreSteps DEF Domain
  <1>1. CASE StoreDomain
    <2>1. Domain \in Stored'
      BY <1>1, OfTarget, Upserted DEF StoreDomain
    <2> QED
      BY <1>0, <1>1, <2>1 DEF StoreDomain, Placed, Halfway
  <1>2. CASE StoreProvenance
    <2>1. HostAsset' = HostAsset /\ Stored' = Stored
      BY <1>2 DEF StoreProvenance, writing, HostAsset, Stored
    <2> QED
      BY <1>0, <1>2, <2>1 DEF StoreProvenance, writing, Placed, Halfway, ResolvesTo, Address
  <1>3. CASE StoreSubdomain
    <2>1. HostAsset' = HostAsset /\ Stored' = Stored /\ cur' = cur
      BY <1>3 DEF StoreSubdomain, HostAsset, Stored
    <2>2. pc = "link" /\ pc' \in {"hosts", "ips"} /\ ipsLeft' = ipsLeft /\ prov' = prov
      BY <1>3 DEF StoreSubdomain, NextAddress
    <2>3. edges' = edges \union {<<Domain, "HAS_SUBDOMAIN", HostAsset>>}
      BY <1>3 DEF StoreSubdomain
    <2> QED
      BY <1>0, <2>1, <2>2, <2>3 DEF Placed, Halfway, ResolvesTo, Address
  <1>4. CASE StoreResolvesTo
    <2>1. HostAsset' = HostAsset /\ Stored' = Stored /\ cur' = cur
      BY <1>4 DEF StoreResolvesTo, HostAsset, Stored
    <2>2. /\ pc = "resolves" /\ pc' \in {"hosts", "ips"} /\ ipsLeft' = ipsLeft \ {at}
          /\ prov' = prov
      BY <1>4 DEF StoreResolvesTo, NextAddress
    <2>3. edges' = edges \union {ResolvesTo(at)}
      BY <1>4 DEF StoreResolvesTo
    <2>4. \A i : ResolvesTo(i)' = ResolvesTo(i)
      BY <2>1 DEF ResolvesTo, Address
    <2> QED
      BY <1>0, <2>1, <2>2, <2>3, <2>4 DEF Placed, Halfway, Address
  <1>5. ASSUME NEW h \in Host, StoreHost(h) PROVE Placed' /\ Halfway'
    <2>1. <<"hostname", h>> \in Stored' /\ Stored \subseteq Stored'
      BY <1>5, Ids, Upserted DEF StoreHost
    <2>2. pc = "hosts" /\ pc' = "prov" /\ cur' = h /\ ipsLeft' = ips[h]
      BY <1>5 DEF StoreHost
    <2> QED
      BY <1>0, <2>1, <2>2 DEF Placed, Halfway, HostAsset
  <1>6. ASSUME NEW i \in IP, StoreAddress(i) PROVE Placed' /\ Halfway'
    <2>1. Stored' = Stored \union {Address(i)}
      BY <1>6, Ids, Upserted DEF StoreAddress
    <2>2. /\ pc = "ips" /\ pc' = "resolves" /\ at' = i /\ HostAsset' = HostAsset
          /\ UNCHANGED <<cur, edges, prov, ipsLeft>>
      BY <1>6 DEF StoreAddress, HostAsset
    <2> QED
      BY <1>0, <2>1, <2>2 DEF Placed, Halfway, ResolvesTo, Address
  <1>7. CASE \E p \in Port : StorePort(p)
    BY <1>7 DEF StorePort, Placed, Halfway
  <1> QED
    BY <1>1, <1>2, <1>3, <1>4, <1>5, <1>6, <1>7 DEF Stores

LEMMA DanglesStep ==
  ASSUME TypeOK, Types, Placed, NothingDangles, Next
  PROVE  NothingDangles'
  <1>1. CASE ~Stores
    BY <1>1, DatabaseStays DEF NothingDangles
  <1>2. CASE Stores
    <2> USE DEF DomainPlaces, HostPlaces, Executed
    <2>1. Stored \subseteq Stored'
      BY <1>2, StoreSteps
    <2>2. CASE edges' = edges /\ prov' = prov
      BY <2>1, <2>2 DEF NothingDangles
    <2>3. CASE StoreProvenance
      BY <2>1, <2>3 DEF StoreProvenance, Placed, NothingDangles
    <2>4. CASE StoreSubdomain
      BY <2>1, <2>4 DEF StoreSubdomain, Placed, NothingDangles
    <2>5. CASE StoreResolvesTo
      BY <2>1, <2>5 DEF StoreResolvesTo, ResolvesTo, Placed, NothingDangles
    <2> QED
      BY <1>2, <2>2, <2>3, <2>4, <2>5
         DEF Stores, StoreDomain, StoreHost, StoreAddress, StorePort
  <1> QED
    BY <1>1, <1>2
------------------------------------------------------------------------------
(* What was found is accounted for. *)

\* The database only grows, and what has been written of a finding stays written.
LEMMA FindingKept ==
  ASSUME TypeOK, Types, Next, target' = target, NEW f, HasFinding(f)
  PROVE  HasFinding(f)'
  <1>1. Stored \subseteq Stored' /\ edges \subseteq edges' /\ prov \subseteq prov'
    BY DatabaseStays, StoreSteps
  <1>2. Domain' = Domain
    BY DEF Domain
  <1> QED
    BY <1>1, <1>2 DEF HasFinding, Address

\* When the last of a host's rows is written, its finding is complete.
LEMMA HostComplete ==
  ASSUME TypeOK, Types, Placed, Halfway, NEW f, Owed(f), f.host = cur, ipsLeft' = {},
         StoreSubdomain \/ StoreResolvesTo
  PROVE  HasFinding(f)'
  <1> DEFINE asset == <<"hostname", f.host>>
  <1> USE DEF HostPlaces, Executed
  <1>1. asset = HostAsset /\ f.ips = ips[cur] /\ f.module = phase
    BY DEF Owed, HostAsset
  <1>2. /\ Stored' = Stored /\ prov' = prov /\ Domain' = Domain /\ target' = target
        /\ pc \in {"link", "resolves"} /\ edges \subseteq edges'
    BY DEF StoreSubdomain, StoreResolvesTo, Stored, Domain, process
  <1>3. asset \in Stored' /\ <<asset, f.module>> \in prov'
    BY <1>1, <1>2 DEF Placed, Halfway
  <1>4. <<Domain, "HAS_SUBDOMAIN", asset>> \in edges'
    <2>1. CASE StoreSubdomain
      BY <1>1, <2>1 DEF StoreSubdomain
    <2>2. CASE StoreResolvesTo
      BY <1>1, <1>2, <2>2 DEF StoreResolvesTo, Halfway
    <2> QED
      BY <2>1, <2>2
  <1>5. ASSUME NEW i \in f.ips
        PROVE  Address(i) \in Stored /\ <<asset, "RESOLVES_TO", Address(i)>> \in edges'
    <2>1. CASE i \notin ipsLeft
      BY <1>1, <1>2, <2>1 DEF Halfway, ResolvesTo
    <2>2. CASE i \in ipsLeft
      <3>1. StoreResolvesTo /\ i = at
        BY <2>2 DEF StoreSubdomain, StoreResolvesTo, NextAddress
      <3> QED
        BY <1>1, <3>1 DEF StoreResolvesTo, ResolvesTo, Placed
    <2> QED
      BY <2>1, <2>2
  <1> HIDE DEF asset
  <1>6. \A i \in f.ips : Address(i) \in Stored' /\ <<asset, "RESOLVES_TO", Address(i)>> \in edges'
    BY <1>2, <1>5
  <1> QED
    BY <1>2, <1>3, <1>4, <1>6 DEF HasFinding, Address, asset

LEMMA AccountedStores ==
  ASSUME TypeOK, Types, Placed, Halfway, Accounted, Stores
  PROVE  Accounted'
  <1> USE DEF Executed, FindingPlaces, DomainPlaces, HostPlaces
  <1>1. /\ UNCHANGED <<phase, ips, reported, open, target, addr>>
        /\ Stored \subseteq Stored' /\ pc # "exited"
    BY StoreSteps, ListShrinks
  <1>2. Next
    BY DEF Next, Work, Writing, Stores
  <1>3. Domain' = Domain /\ \A p : PortAsset(p)' = PortAsset(p)
    BY <1>1 DEF Domain, PortAsset
  <1>4. /\ \A f \in reported : HasFinding(f) \/ Owed(f)
        /\ reported = {} \/ pc = "domain" \/ Domain \in Stored
        /\ \A p \in open : \/ PortAsset(p) \in Stored
                           \/ pc = "probes"
                           \/ pc = "ports" /\ p \in todo
    BY <1>1 DEF Accounted, Failed
  <1>5. ASSUME NEW f \in reported PROVE HasFinding(f)' \/ Owed(f)'
    <2>1. CASE HasFinding(f)
      BY <1>1, <1>2, <2>1, FindingKept
    <2>2. CASE Owed(f) /\ (StoreDomain \/ StoreProvenance \/ (\E h \in Host : StoreHost(h))
                             \/ \E i \in IP : StoreAddress(i))
      BY <1>1, <2>2 DEF Owed, StoreDomain, StoreProvenance, StoreHost, StoreAddress, writing
    <2>3. CASE Owed(f) /\ (StoreSubdomain \/ StoreResolvesTo)
      <3>1. CASE ipsLeft' = {} /\ f.host = cur
        BY <2>3, <3>1, HostComplete
      <3>2. CASE ipsLeft' # {} \/ f.host # cur
        BY <1>1, <2>3, <3>2 DEF Owed, StoreSubdomain, StoreResolvesTo, NextAddress
      <3> QED
        BY <3>1, <3>2
    <2>4. CASE Owed(f) /\ \E p \in Port : StorePort(p)
      BY <2>4 DEF Owed, StorePort
    <2> QED
      BY <1>4, <2>1, <2>2, <2>3, <2>4 DEF Stores
  <1>6. reported = {} \/ Domain \in Stored'
    <2>1. CASE StoreDomain
      BY <2>1, OfTarget, Upserted DEF StoreDomain
    <2>2. CASE ~StoreDomain
      <3>1. pc # "domain"
        BY <2>2 DEF Stores, StoreProvenance, StoreSubdomain, StoreResolvesTo, StoreHost,
                    StoreAddress, StorePort
      <3> QED
        BY <1>1, <1>4, <3>1
    <2> QED
      BY <2>1, <2>2
  <1>7. ASSUME NEW p \in open
        PROVE  PortAsset(p) \in Stored' \/ (pc' = "ports" /\ p \in todo')
    <2>1. CASE PortAsset(p) \in Stored
      BY <1>1, <2>1
    <2>2. CASE pc = "ports" /\ p \in todo
      <3>1. PICK q \in Port : StorePort(q)
        BY <2>2 DEF Stores, StoreDomain, StoreProvenance, StoreSubdomain, StoreResolvesTo,
                    StoreHost, StoreAddress
      <3>2. PortAsset(q) \in Stored'
        <4>1. PortAsset(q) \in AssetIds
          BY <2>2, Ids DEF PortAsset, Types
        <4>2. Upsert(PortAsset(q), FALSE)
          BY <3>1 DEF StorePort
        <4> QED
          BY <4>1, <4>2, Upserted
      <3> QED
        BY <2>2, <3>1, <3>2 DEF StorePort
    <2> QED
      BY <1>4, <2>1, <2>2, ListShrinks
  <1> QED
    BY <1>1, <1>3, <1>5, <1>6, <1>7 DEF Accounted

LEMMA AccountedStep ==
  ASSUME TypeOK, Types, Placed, Halfway, Accounted, Next
  PROVE  Accounted'
  <1> USE DEF FindingPlaces, DomainPlaces, HostPlaces
  <1>1. CASE Stores
    BY <1>1, AccountedStores
  <1>2. CASE Breaks
    BY <1>2, BreakSteps DEF Accounted, Failed
  <1>3. CASE Starts
    BY <1>3 DEF Starts, Start, Accounted
  <1>4. CASE ~Stores /\ ~Breaks /\ ~Starts
    <2>1. target' = target /\ Stored' = Stored /\ Domain' = Domain
      <3>1. target' = target
        BY <1>4, NextSteps, UnseenSteps, MoveSteps
           DEF LookupsStart, StartLookups, Answer, LookupAnswers, Probe, Probed, ScanPorts,
               StartProbes, LookupsEnd, ProbesEnd, process
      <3> QED
        BY <1>4, <3>1, DatabaseStays DEF Domain
    <2>2. \A f : HasFinding(f) => HasFinding(f)'
      BY <2>1, FindingKept
    <2>3. CASE Unseen
      BY <2>1, <2>2, <2>3, UnseenSteps DEF Accounted, Failed, Owed, PortAsset
    <2>4. CASE Moves
      <3>1. UNCHANGED <<phase, ips, reported, open, todo, addr>>
        BY <2>4, MoveSteps
      <3> QED
        BY <2>1, <2>2, <2>4, <3>1, MoveSteps DEF Accounted, Failed, Owed, PortAsset
    <2>5. CASE LookupsStart
      BY <2>1, <2>2, <2>5
         DEF LookupsStart, Enter, StartLookups, writing, Accounted, Failed, Owed, PortAsset
    <2>6. CASE Answer
      BY <2>1, <2>2, <2>6
         DEF Answer, LookupAnswers, Accounted, Failed, Owed, PortAsset
    <2>7. CASE Probe
      BY <2>1, <2>2, <2>7 DEF Probe, Probed, process, Accounted, Failed, Owed
    <2>8. CASE ScanPorts
      BY <2>1, <2>2, <2>8 DEF ScanPorts, Enter, StartProbes, Accounted, Failed, Owed
    <2>9. CASE LookupsEnd
      <3>1. /\ pc = "lookups" /\ pc' = "domain" /\ todo' = Findings /\ phase' = phase
            /\ UNCHANGED <<ips, open, addr>>
            /\ reported' = reported
                 \union {[module |-> phase, host |-> h, ips |-> ips[h]] : h \in Findings}
        BY <2>9 DEF LookupsEnd, process
      <3>2. \A f \in reported' : HasFinding(f)' \/ Owed(f)'
        BY <2>2, <3>1 DEF Accounted, Failed, Owed
      <3> QED
        BY <2>1, <3>1, <3>2 DEF Accounted, Failed, PortAsset
    <2>10. CASE ProbesEnd
      BY <2>1, <2>2, <2>10 DEF ProbesEnd, process, found, Accounted, Failed, Owed
    <2> QED
      BY <1>4, <2>3, <2>4, <2>5, <2>6, <2>7, <2>8, <2>9, <2>10, NextSteps
  <1> QED
    BY <1>1, <1>2, <1>3, <1>4
------------------------------------------------------------------------------
(* The verdicts. *)

\* When a phase has begun, -d is not among those to come.
LEMMA TailOfPlan ==
  ASSUME PlanInv, plan # <<>>
  PROVE  /\ Tail(plan) \in Seq({"discover", "brute", "ports"})
         /\ \A i \in DOMAIN Tail(plan) : Tail(plan)[i] # "discover"
         /\ Head(plan) = "discover" => phase = "none"
  <1>1. Len(plan) \in Nat /\ Len(plan) # 0 /\ DOMAIN plan = 1..Len(plan)
    BY DEF PlanInv
  <1>2. ASSUME NEW i \in DOMAIN Tail(plan) PROVE Tail(plan)[i] # "discover"
    <2>1. i \in Nat /\ i # 0 /\ i + 1 \in DOMAIN plan /\ Tail(plan)[i] = plan[i + 1]
      BY <1>1 DEF PlanInv
    <2> QED
      BY <2>1 DEF PlanInv
  <1>3. Head(plan) = plan[1] /\ 1 \in DOMAIN plan
    BY <1>1
  <1> QED
    BY <1>1, <1>2, <1>3 DEF PlanInv

LEMMA PlanStep ==
  ASSUME TypeOK, Types, PlanInv, Next
  PROVE  PlanInv'
  <1> USE DEF FindingPlaces, DomainPlaces, HostPlaces
  <1>1. CASE Unseen
    BY <1>1, UnseenSteps DEF PlanInv
  <1>2. CASE Breaks
    <2>1. pc' = "exited" /\ reported' = reported
      BY <1>2, BreakSteps
    <2>2. CASE StatementFails \/ Kill
      BY <2>1, <2>2 DEF StatementFails, Kill, PlanInv
    <2>3. ASSUME NEW p \in {"discover", "brute", "ports"}, PhaseFails(p)
          PROVE  PlanInv'
      <3>1. plan # <<>> /\ plan' = Tail(plan) /\ phase' # "none"
        BY <2>3 DEF PhaseFails, Enter
      <3> QED
        BY <2>1, <3>1, TailOfPlan DEF PlanInv
    <2> QED
      BY <1>2, <2>2, <2>3 DEF Breaks, DiscoverRefused, BruteRefused, PortsRefused
  <1>3. CASE LookupsStart
    <2>1. PICK p \in {"discover", "brute"}, names \in SUBSET Host : Enter(p) /\ StartLookups(names)
      BY <1>3 DEF LookupsStart
    <2>2. /\ plan # <<>> /\ Head(plan) = p /\ plan' = Tail(plan) /\ phase' = p
          /\ pc' = "lookups" /\ reported' = reported
          /\ waiting' \union running' \union finished' \subseteq Host
      BY <2>1 DEF Enter, StartLookups, StartPool
    <2> QED
      BY <2>2, TailOfPlan DEF PlanInv
  <1>4. CASE Starts
    BY <1>4, PlansAssumption DEF Starts, Start, PlanInv
  <1>5. CASE Answer
    BY <1>5 DEF Answer, LookupAnswers, Pool!End, PlanInv
  <1>6. CASE Probe
    BY <1>6 DEF Probe, Probed, process, PlanInv
  <1>7. CASE Stores
    BY <1>7, StoreSteps, ListShrinks DEF PlanInv
  <1>8. CASE Moves
    <2>1. plan' = plan
      BY <1>8 DEF Moves, Cancel, CreateProject, HostsWritten, PortsWritten, Written, Done, process
    <2> QED
      BY <1>8, <2>1, MoveSteps DEF PlanInv
  <1>9. CASE ScanPorts
    <2>1. /\ plan # <<>> /\ plan' = Tail(plan) /\ phase' = "ports"
          /\ pc' = "probes" /\ reported' = reported
      BY <1>9 DEF ScanPorts, Enter, StartProbes
    <2> QED
      BY <2>1, TailOfPlan DEF PlanInv
  <1>10. CASE LookupsEnd
    BY <1>10 DEF LookupsEnd, process, Types, PlanInv
  <1>11. CASE ProbesEnd
    BY <1>11 DEF ProbesEnd, process, found, PlanInv
  <1> QED
    BY <1>1, <1>2, <1>3, <1>4, <1>5, <1>6, <1>7, <1>8, <1>9, <1>10, <1>11, NextSteps

LEMMA FoundStep ==
  ASSUME TypeOK, Types, PlanInv, FoundNow, Next
  PROVE  FoundNow'
  <1> USE DEF FindingPlaces, DomainPlaces, HostPlaces
  <1>1. CASE Unseen
    BY <1>1, UnseenSteps DEF FoundNow
  <1>2. CASE Breaks
    BY <1>2, BreakSteps DEF FoundNow
  <1>3. CASE Moves
    BY <1>3, MoveSteps DEF FoundNow
  <1>4. CASE LookupsStart \/ Answer \/ ScanPorts \/ Starts
    BY <1>4 DEF LookupsStart, StartLookups, Answer, LookupAnswers, ScanPorts, StartProbes, Starts,
                Start, FoundNow
  <1>5. CASE Probe \/ ProbesEnd
    BY <1>5 DEF Probe, Probed, ProbesEnd, found, FoundNow
  <1>6. CASE Stores
    BY <1>6, StoreSteps, ListShrinks DEF FoundNow
  <1>7. CASE LookupsEnd
    <2>1. /\ pc = "lookups" /\ pc' = "domain" /\ todo' = Findings /\ phase' = phase /\ ips' = ips
          /\ reported' = reported
               \union {[module |-> phase, host |-> h, ips |-> ips[h]] : h \in Findings}
      BY <1>7 DEF LookupsEnd, process
    <2>2. Findings \subseteq Host
      BY <2>1 DEF Findings, PlanInv
    <2>3. phase = "brute" => \A h \in Findings : ips[h] # {}
      BY DEF Findings
    <2> QED
      BY <2>1, <2>2, <2>3 DEF PlanInv, FoundNow
  <1> QED
    BY <1>1, <1>2, <1>3, <1>4, <1>5, <1>6, <1>7, NextSteps

\* The row of a host is only changed when that host is written.
LEMMA RowStays ==
  ASSUME TypeOK, Types, Stores, NEW h \in Host, ~StoreHost(h)
  PROVE  assets'[<<"hostname", h>>] = assets[<<"hostname", h>>]
  <1>1. ASSUME NEW a \in AssetIds, NEW r, Upsert(a, r), a # <<"hostname", h>>
        PROVE  assets'[<<"hostname", h>>] = assets[<<"hostname", h>>]
    BY <1>1, Ids DEF Upsert, TypeOK
  <1>2. CASE StoreDomain
    BY <1>1, <1>2, OfTarget DEF StoreDomain, Domain
  <1>3. CASE StoreProvenance \/ StoreSubdomain \/ StoreResolvesTo
    BY <1>3 DEF StoreProvenance, StoreSubdomain, StoreResolvesTo
  <1>4. CASE \E g \in Host : StoreHost(g)
    BY <1>1, <1>4, Ids DEF StoreHost
  <1>5. CASE \E i \in IP : StoreAddress(i)
    BY <1>1, <1>5, Ids DEF StoreAddress, Address
  <1>6. CASE \E p \in Port : StorePort(p)
    BY <1>1, <1>6, Ids DEF StorePort, Executed, PortAsset, Types
  <1> QED
    BY <1>2, <1>3, <1>4, <1>5, <1>6 DEF Stores

\* The row that is written has the verdict of all the findings so far.
LEMMA VerdictWritten ==
  ASSUME TypeOK, Types, FoundNow, NEW h \in Host, StoreHost(h)
  PROVE  assets'[<<"hostname", h>>].resolved <=> IsResolved(h)
  <1>1. pc = "hosts" /\ h \in todo /\ phase \in {"discover", "brute"}
    BY DEF StoreHost, Executed, Types, FindingPlaces, DomainPlaces
  <1>2. assets'[<<"hostname", h>>].resolved = (ips[h] # {})
    BY Ids DEF StoreHost, Upsert, TypeOK
  <1>3. [module |-> phase, host |-> h, ips |-> ips[h]] \in reported
    BY <1>1 DEF FoundNow, FindingPlaces, DomainPlaces
  <1>4. ips[h] # {} => IsResolved(h)
    BY <1>3 DEF IsResolved
  <1>5. IsResolved(h) => ips[h] # {}
    BY <1>1 DEF IsResolved, FoundNow, FindingPlaces, DomainPlaces
  <1> QED
    BY <1>2, <1>4, <1>5

LEMMA VerdictsStores ==
  ASSUME TypeOK, Types, FoundNow, Verdicts, Stores
  PROVE  Verdicts'
  <1> USE DEF Executed, FindingPlaces, DomainPlaces, HostPlaces
  <1>1. ~Failed /\ reported' = reported
    BY ListShrinks, StoreSteps DEF Failed
  <1>2. ASSUME NEW f \in reported
        PROVE  \/ f.host \in Unwritten'
               \/ assets'[<<"hostname", f.host>>].resolved <=> IsResolved(f.host)
    <2>1. f.host \in Host
      BY DEF FoundNow
    <2>2. CASE StoreHost(f.host)
      BY <2>1, <2>2, VerdictWritten
    <2>3. CASE ~StoreHost(f.host)
      <3>1. assets'[<<"hostname", f.host>>] = assets[<<"hostname", f.host>>]
        BY <2>1, <2>3, RowStays
      <3>2. f.host \in Unwritten => f.host \in Unwritten'
        BY <2>3 DEF Stores, StoreDomain, StoreProvenance, StoreSubdomain, StoreResolvesTo,
                    StoreHost, StoreAddress, StorePort, NextAddress, Unwritten, writing
      <3> QED
        BY <1>1, <3>1, <3>2 DEF Verdicts
    <2> QED
      BY <2>2, <2>3
  <1> QED
    BY <1>1, <1>2 DEF Verdicts, IsResolved

LEMMA VerdictsStep ==
  ASSUME TypeOK, Types, PlanInv, FoundNow, Verdicts, Next
  PROVE  Verdicts'
  <1> USE DEF FindingPlaces, DomainPlaces, HostPlaces
  <1>1. CASE Stores
    BY <1>1, VerdictsStores
  <1>2. CASE Breaks
    BY <1>2, BreakSteps DEF Verdicts, Failed
  <1>3. CASE Starts
    BY <1>3 DEF Starts, Start, Verdicts
  <1>4. CASE LookupsEnd
    <2>1. /\ pc = "lookups" /\ pc' = "domain" /\ todo' = Findings /\ assets' = assets
          /\ reported' = reported
               \union {[module |-> phase, host |-> h, ips |-> ips[h]] : h \in Findings}
      BY <1>4 DEF LookupsEnd, db
    <2>2. Unwritten = {} /\ Unwritten' = Findings
      BY <2>1 DEF Unwritten
    <2>3. ASSUME NEW f \in reported', f.host \notin Findings
          PROVE  f \in reported /\ (IsResolved(f.host)' <=> IsResolved(f.host))
      BY <2>1, <2>3 DEF IsResolved
    <2> QED
      BY <2>1, <2>2, <2>3 DEF Verdicts, Failed
  <1>5. CASE ~Stores /\ ~Breaks /\ ~Starts /\ ~LookupsEnd
    <2>1. assets' = assets
      BY <1>5, DatabaseStays
    <2>2. reported' = reported /\ ~Failed
      BY <1>5, UnseenSteps, MoveSteps, NextSteps
         DEF LookupsStart, Enter, StartLookups, Answer, LookupAnswers, Probe, Probed, ScanPorts,
             StartProbes, ProbesEnd, found, Failed
    <2>3. Unwritten \subseteq Unwritten'
      BY <1>5, UnseenSteps, MoveSteps, NextSteps
         DEF LookupsStart, Enter, StartLookups, Answer, LookupAnswers, Probe, Probed, ScanPorts,
             StartProbes, ProbesEnd, process, writing, Unwritten
    <2>4. \A h : IsResolved(h)' <=> IsResolved(h)
      BY <2>2 DEF IsResolved
    <2> QED
      BY <2>1, <2>2, <2>3, <2>4 DEF Verdicts
  <1> QED
    BY <1>1, <1>2, <1>3, <1>4, <1>5
------------------------------------------------------------------------------
(* The theorems. *)

LEMMA InitInv == Init => IInv
  <1> SUFFICES ASSUME Init PROVE IInv
    OBVIOUS
  <1> USE DEF Init, FindingPlaces, DomainPlaces, HostPlaces
  <1>1. Stored = {}
    BY DEF Stored
  <1>2. NothingDangles /\ Placed /\ Halfway /\ Filtered /\ Accounted
    BY DEF NothingDangles, Placed, Halfway, Filtered, Accounted
  <1>4. PlanInv /\ FoundNow /\ Verdicts
    BY DEF PlanInv, FoundNow, Verdicts
  <1>3. ProbesInScope /\ HostsInScope
    BY <1>1 DEF ProbesInScope, HostsInScope
  <1> QED
    BY <1>2, <1>3, <1>4, InitTypes, InitScope DEF IInv

LEMMA NextInv == IInv /\ [Next]_vars => IInv'
  <1> SUFFICES ASSUME IInv, [Next]_vars PROVE IInv'
    OBVIOUS
  <1>1. CASE Next
    BY <1>1, TypesStep, ScopeStep, FilteredStep, DanglesStep, PlacedStays, PlacedStep,
       AccountedStep, ProbesStep, HostsStep, PlanStep, FoundStep, VerdictsStep DEF IInv
  <1>2. CASE UNCHANGED vars
    <2>1. UNCHANGED <<assets, edges, prov, runs, pc, phase, plan, exit, cancelled, scope, target,
                      addr, limit, waiting, running, finished, returned, grace, ips, open, todo,
                      cur, ipsLeft, at, reported, probed>>
      BY <1>2 DEF vars, db, process, pool, found, writing
    <2>2. Stored' = Stored /\ Domain' = Domain /\ HostAsset' = HostAsset
      BY <2>1 DEF Stored, Domain, HostAsset
    <2>3. TypeOK' /\ Types' /\ ScopeInv' /\ Filtered'
      BY <2>1 DEF IInv, TypeOK, Types, ScopeInv, Filtered, AllowHost, ExcludedHost, AllowIP,
                  ExcludedIP
    <2>4. NothingDangles' /\ Placed' /\ Halfway'
      BY <2>1, <2>2 DEF IInv, NothingDangles, Placed, Halfway, ResolvesTo, Address
    <2>5. Accounted'
      BY <2>1, <2>2 DEF IInv, Accounted, Failed, Owed, HasFinding, PortAsset, Address
    <2>6. ProbesInScope' /\ HostsInScope'
      BY <2>1, <2>2 DEF IInv, ProbesInScope, HostsInScope, AllowHost, ExcludedHost
    <2>7. PlanInv' /\ FoundNow' /\ Verdicts'
      BY <2>1 DEF IInv, PlanInv, FoundNow, Verdicts, Failed, Unwritten, IsResolved
    <2> QED
      BY <2>3, <2>4, <2>5, <2>6, <2>7 DEF IInv
  <1> QED
    BY <1>1, <1>2

LEMMA Invariance == Spec => []IInv
  BY InitInv, NextInv, PTL DEF Spec

\* The process and the database keep their types, whatever is found.
THEOREM TypeCorrect == Spec => []TypeOK
  <1>1. IInv => TypeOK
    BY DEF IInv
  <1> QED
    BY <1>1, Invariance, PTL

\* Wherever runs are stopped, no edge and no provenance refers to a missing asset.
THEOREM NeverDangles == Spec => []NothingDangles
  <1>1. IInv => NothingDangles
    BY DEF IInv
  <1> QED
    BY <1>1, Invariance, PTL

\* An address that is excluded is never dialled, nor one that nothing brought into
\* scope, for any rules.
THEOREM ProbesStayInScope == Spec => []ProbesInScope
  <1>1. IInv => ProbesInScope
    BY DEF IInv
  <1> QED
    BY <1>1, Invariance, PTL

\* A host that the rules of a scan exclude or do not include is not looked up by it,
\* nor stored, nor linked to its target: for any rules, providers and word lists, and
\* over what any number of scans of other targets have written.
THEOREM HostsStayInScope == Spec => []HostsInScope
  <1>1. IInv => HostsInScope
    BY DEF IInv
  <1> QED
    BY <1>1, Invariance, PTL

\* A scan that exits with 0 has stored all it found, over what any number of runs,
\* stopped anywhere, have left, and for any plan of phases.
THEOREM SuccessStoresAll == Spec => []SuccessIsComplete
  <1>1. IInv => SuccessIsComplete
    <2> SUFFICES ASSUME IInv, exit = "ok" PROVE SuccessIsComplete
      BY DEF SuccessIsComplete
    <2>1. pc = "exited"
      BY DEF IInv, Types
    <2> QED
      BY <2>1 DEF IInv, Accounted, Failed, Owed, SuccessIsComplete, FindingPlaces, DomainPlaces,
                  HostPlaces
  <1> QED
    BY <1>1, Invariance, PTL

\* After such a scan the row of a host it found says resolved just when a phase of it
\* resolved the host, for any plan of phases the flags can ask for.
THEOREM VerdictIsCurrent == Spec => []ResolvedIsCurrent
  <1>1. IInv => ResolvedIsCurrent
    <2> SUFFICES ASSUME IInv, exit = "ok" PROVE ResolvedIsCurrent
      BY DEF ResolvedIsCurrent
    <2>1. pc = "exited"
      BY DEF IInv, Types
    <2>2. ~Failed /\ Unwritten = {}
      BY <2>1 DEF Failed, Unwritten, HostPlaces
    <2> QED
      BY <2>2 DEF IInv, Verdicts, IsResolved, ResolvedIsCurrent
  <1> QED
    BY <1>1, Invariance, PTL
==============================================================================
