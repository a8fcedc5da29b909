--------------------------------- MODULE Ports --------------------------------
(***************************************************************************)
(* internal/portscan/ports.go: what a port specification means.            *)
(*                                                                         *)
(* The text is taken apart: a specification is Blank, Every ("-" or "*"),  *)
(* or the sequence of what stands between its commas.  Such a part is the  *)
(* sequence of its tokens: none if it is blank, two if it has a "-" (the   *)
(* texts before and after the first one), else one.  A token is what       *)
(* strconv.Atoi makes of it: an integer, or Junk.                          *)
(***************************************************************************)
EXTENDS Integers, Sequences, SequencesExt, Lists

CONSTANTS MaxPort,      \* 65535
          CommonPorts,  \* the sorted list that is scanned when none is given
          Blank, Every, Junk

ASSUME PortsAssumption == MaxPort \in Nat

Refused == [ok |-> FALSE]
Listed(ports) == [ok |-> TRUE, ports |-> ports]

\* parsePort
ValidPort(token) == token # Junk /\ token \in 1..MaxPort

PartFails(part) ==
  \/ \E i \in DOMAIN part : ~ValidPort(part[i])
  \/ Len(part) = 2 /\ part[1] > part[2]

PortsOf(part) == IF part = <<>> THEN {} ELSE part[1]..Last(part)

AllPorts == [i \in 1..MaxPort |-> i]

\* Mutant: the parts one after the other, as they are written.
AsWritten(spec) ==
  IF spec = Blank THEN Listed(CommonPorts)
  ELSE IF spec = Every THEN Listed(AllPorts)
  ELSE IF \E i \in DOMAIN spec : PartFails(spec[i]) THEN Refused
  ELSE LET out == FlattenSeq([i \in DOMAIN spec |-> Ascending(PortsOf(spec[i]))])
       IN  IF out = <<>> THEN Refused ELSE Listed(out)

\* The loop of ParsePorts ends at the first part that fails, and gathers the
\* ports of the others in a set.
ParsePorts(spec) ==
  IF spec = Blank THEN Listed(CommonPorts)
  ELSE IF spec = Every THEN Listed(AllPorts)
  ELSE IF \E i \in DOMAIN spec : PartFails(spec[i]) THEN Refused
  ELSE LET seen == UNION {PortsOf(spec[i]) : i \in DOMAIN spec}
       IN  IF seen = {} THEN Refused ELSE Listed(Ascending(seen))
==============================================================================
