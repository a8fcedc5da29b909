---------------------------- MODULE GraphContract ----------------------------
(***************************************************************************)
(* What docs/DATA_MODEL.md promises of the asset graph, and how far the    *)
(* store keeps it: an observation of an asset or an edge is merged into    *)
(* its one row in one step, adding to what is known and destroying         *)
(* nothing, as long as no two upserts of that row are in progress at once. *)
(* Of a row that two upserts have raced for, only the verdicts of the      *)
(* first insert are promised.                                              *)
(***************************************************************************)
EXTENDS Integers

CONSTANTS Subject,      \* deterministic ids of assets and edges
          Observation,  \* what an upsert may bring: scalar, list, conf, scope
          Absent,       \* no row
          NoScalar,     \* the observation has no such key
          Horizon       \* the times considered are 0..Horizon

VARIABLES rows, racy

Larger(a, b) == IF a > b THEN a ELSE b

\* A row after an observation o made at time t.
Known(row, o, t) ==
  IF row = Absent
  THEN [scalar |-> o.scalar, list |-> o.list, conf |-> o.conf, scope |-> o.scope,
        first |-> t, last |-> t]
  ELSE [row EXCEPT !.scalar = IF o.scalar = NoScalar THEN @ ELSE o.scalar,
                   !.list = @ \union o.list,
                   !.conf = Larger(@, o.conf),
                   !.last = t]

GInit == rows = [s \in Subject |-> Absent] /\ racy = {}

Observe(s) ==
  /\ s \notin racy
  /\ \E o \in Observation, t \in 0..Horizon :
       /\ rows[s] = Absent \/ rows[s].last <= t
       /\ rows' = [rows EXCEPT ![s] = Known(rows[s], o, t)]
  /\ UNCHANGED racy

\* Upserts of s begin to overlap, or one that has overlapped writes.
Race(s) ==
  /\ racy' = racy \union {s}
  /\ \A u \in Subject \ {s} : rows'[u] = rows[u]
  /\ \/ rows'[s] = rows[s]
     \/ rows[s] = Absent /\ rows'[s] # Absent
     \/ /\ rows[s] # Absent /\ rows'[s] # Absent
        /\ rows'[s].first = rows[s].first /\ rows'[s].scope = rows[s].scope

Contract == GInit /\ [][\E s \in Subject : Observe(s) \/ Race(s)]_<<rows, racy>>

==============================================================================
