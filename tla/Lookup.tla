-------------------------------- MODULE Lookup --------------------------------
(***************************************************************************)
(* internal/dns: the chase of aliases in Resolver.lookupIP, and the        *)
(* detection of wildcards (wildcard.go) that is built on LookupA.          *)
(*                                                                         *)
(* What the servers would answer is a function `reply`: for the type asked *)
(* for, A or AAAA, and for CNAME, the outcome of Query on each name, which *)
(* may be an error.  One lookup asks each question at most once.  Names    *)
(* are compared without case, here as in the cache: a name stands for its  *)
(* spellings.                                                              *)
(***************************************************************************)
EXTENDS Naturals, Sequences, FiniteSets

CONSTANTS MaxHops      \* names one lookup asks for (8)

ASSUME HopsAssumption == MaxHops \in Nat

\* Outcomes of Query, and of a lookup.  A lookup that finds nothing and one that
\* has failed are told apart by err alone.
QueryFails == [err |-> TRUE]
Answered(rcode, recs) == [err |-> FALSE, rcode |-> rcode, recs |-> recs]
Resolved(ips) == [err |-> FALSE, ips |-> ips]
LookupFails == [err |-> TRUE]

\* Mutant: a name that was seen before ends the lookup without an answer.
LoopIsAbsence(reply, s) ==
  LET q == reply.addresses[s.current]
      c == reply.cnames[s.current]
      Return(out) == [s EXCEPT !.over = TRUE, !.out = out]
  IN  IF s.over THEN s
      ELSE IF s.current \in s.seen THEN Return(Resolved(<<>>))
      ELSE IF q.err THEN Return(LookupFails)
      ELSE IF q.recs # <<>> THEN Return(Resolved(q.recs))
      ELSE IF q.rcode = "NXDOMAIN" THEN Return(Resolved(<<>>))
      ELSE IF c.err THEN Return(LookupFails)
      ELSE IF c.recs = <<>> THEN Return(Resolved(<<>>))
      ELSE [s EXCEPT !.current = Head(c.recs), !.seen = @ \union {s.current}]

\* The loop of lookupIP once, unless it is over.  An rcode other than NXDOMAIN,
\* SERVFAIL included, is an answer without records, and the alias is asked for.
Hop(reply, s) ==
  LET q == reply.addresses[s.current]
      c == reply.cnames[s.current]
      Return(out) == [s EXCEPT !.over = TRUE, !.out = out]
  IN  IF s.over THEN s
      ELSE IF s.current \in s.seen \/ q.err THEN Return(LookupFails)
      ELSE IF q.recs # <<>> THEN Return(Resolved(q.recs))
      ELSE IF q.rcode = "NXDOMAIN" THEN Return(Resolved(<<>>))
      ELSE IF c.err THEN Return(LookupFails)
      ELSE IF c.recs = <<>> THEN Return(Resolved(<<>>))
      ELSE [s EXCEPT !.current = Head(c.recs), !.seen = @ \union {s.current}]

\* lookupIP: what is returned after MaxHops names without a result is an error.
LookupIP(reply, name) ==
  LET s[hop \in Nat] ==
        IF hop = 0 THEN [current |-> name, seen |-> {}, over |-> FALSE, out |-> LookupFails]
        ELSE Hop(reply, s[hop - 1])
  IN  s[MaxHops].out

------------------------------------------------------------------------------
(* Wildcards. *)

AddressesOf(lookup) == IF lookup.err THEN {} ELSE {lookup.ips[i] : i \in DOMAIN lookup.ips}

\* DetectWildcard: the lookups of the random names; one that fails counts as one
\* that found nothing.
DetectWildcard(probes) ==
  LET ips == UNION {AddressesOf(probes[i]) : i \in DOMAIN probes}
  IN  [detected |-> ips # {}, ips |-> ips]

\* Mutant: one address of the wildcard is enough.
IsSharing(w, ips) == w.detected /\ ips \intersect w.ips # {}

\* WildcardResult.Is, for the addresses of a host that was found.
Is(w, ips) == w.detected /\ ips # {} /\ ips \subseteq w.ips
==============================================================================
