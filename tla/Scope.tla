--------------------------------- MODULE Scope --------------------------------
(***************************************************************************)
(* internal/scope/scope.go: the rule sets of a scan and the verdicts they  *)
(* give.  A Scope is a record; each method of the code that changes it is  *)
(* an operator that returns the record after the call.  A method holds the *)
(* lock for all it does, but for LearnIP, which releases it between the    *)
(* question AllowHost and the write: what AllowHost reads no longer        *)
(* changes once runScan has added its target, so nothing can come between. *)
(*                                                                         *)
(* A host name is the sequence of its labels, in lower case.  A glob or a  *)
(* CIDR is the set of what it matches.                                     *)
(***************************************************************************)
EXTENDS SequencesExt

\* The arguments of the rules of one kind.
OfKind(rules, kind) == {r.arg : r \in {q \in rules : q.kind = kind}}

\* addInclude and addExclude classify a rule by its shape; a URL includes its
\* host.  The rest are domain rules, so a path among the includes and a URL
\* among the excludes become domains that no host name matches.
NewScope(cfg) ==
  [ips |-> OfKind(cfg.include, "ip"),
   cidrs |-> OfKind(cfg.include, "cidr"),
   domains |-> OfKind(cfg.include, "domain") \union OfKind(cfg.include, "url"),
   wildcards |-> OfKind(cfg.include, "glob") \union cfg.wildcards,
   excludeIPs |-> OfKind(cfg.exclude, "ip"),
   excludeCIDRs |-> OfKind(cfg.exclude, "cidr"),
   excludeDomains |-> OfKind(cfg.exclude, "domain"),
   excludeWild |-> OfKind(cfg.exclude, "glob"),
   dynamic |-> {}]

AddDomain(s, domain) ==
  IF domain = <<>> THEN s ELSE [s EXCEPT !.domains = @ \union {domain}]

AddIP(s, ip) == [s EXCEPT !.ips = @ \union {ip}]

\* A domain matches itself and its subdomains, label by label.
HostMatchesDomain(host, domain) == IsSuffix(domain, host)

MatchedHost(host, domains, globs) ==
  \/ \E d \in domains : HostMatchesDomain(host, d)
  \/ \E g \in globs : host \in g

ExcludedHost(s, host) == MatchedHost(host, s.excludeDomains, s.excludeWild)

\* Fail-closed: some include rule must match, and no exclude rule.
AllowHost(s, host) ==
  host # <<>> /\ ~ExcludedHost(s, host) /\ MatchedHost(host, s.domains, s.wildcards)

ExcludedIP(s, ip) == ip \in s.excludeIPs \union UNION s.excludeCIDRs

\* An exclude rule wins over an address that was learned or listed.
AllowIP(s, ip) ==
  ~ExcludedIP(s, ip) /\ ip \in s.ips \union s.dynamic \union UNION s.cidrs

\* The addresses a host resolved to, one LearnIP each.
LearnIPs(s, host, ips) ==
  IF AllowHost(s, host) THEN [s EXCEPT !.dynamic = @ \union ips] ELSE s

==============================================================================
