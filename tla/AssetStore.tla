------------------------------ MODULE AssetStore -----------------------------
(***************************************************************************)
(* UpsertAsset and UpsertEdge of internal/store: the clock is read, then   *)
(* the row, then the merged row is written, each of the last two being one *)
(* SQLite statement on its own.  The pool's single connection serialises   *)
(* statements, not upserts, and another process may have the database open *)
(* as well, so upserts of several writers interleave.                      *)
(*                                                                         *)
(* An edge is a row whose observations bring a confidence and no value.    *)
(* value_json stands for one scalar key and one key whose value is a list. *)
(***************************************************************************)
EXTENDS Integers, FiniteSets

CONSTANTS Writer,       \* goroutines or processes that share the database
          Subject,      \* ids of assets and edges
          Observation,  \* [scalar, list, conf, scope] of an upsert
          Absent,       \* no row
          NoScalar,     \* the value has no scalar key
          Horizon,      \* bound: the clock stops here
          MaxUpserts    \* bound: upserts begun by one writer

Scalars == {o.scalar : o \in Observation} \union {NoScalar}
Lists == SUBSET UNION {o.list : o \in Observation}

\* A row of assets, with the parts that upserts read or write.
Row == [scalar : Scalars, list : Lists, conf : Nat, scope : BOOLEAN,
        first : 0..Horizon, last : 0..Horizon]

ASSUME StoreAssumption ==
  /\ Horizon \in Nat /\ MaxUpserts \in Nat
  /\ \A o \in Observation : o.conf \in Nat /\ o.scope \in BOOLEAN
  /\ Absent \notin Row

VARIABLES rows,                    \* the tables, by id
          now,
          pc, subject, obs, stamp, \* per writer: the upsert in progress, its `now'
          existing,                \* the row it has read
          upserts,                 \* upserts begun
          racy,                    \* history: subjects on which two upserts have overlapped
          recorded, base           \* history: per row, the observations that reached it
                                   \* without being overwritten; what of them a writer read

locals == <<pc, subject, obs, stamp, existing, upserts, base>>
vars == <<rows, now, pc, subject, obs, stamp, existing, upserts, racy, recorded, base>>

------------------------------------------------------------------------------
(* The code. *)

\* Mutant: the list of the new value replaces the old one.
ListOfNew(old, new) == new

\* Mutant: the JSON texts that `seen' holds instead of the elements.
TextsOf(old, new) == IF old \union new = {} THEN {} ELSE {"text"}

\* unionAny: both lists, without duplicates.
UnionAny(old, new) == old \union new

\* mergeValue: scalars overwrite, lists are united.
MergeScalar(old, new) == IF new = NoScalar THEN old ELSE new

\* Mutant: the confidence of the observation.
NewConfidence(row, o) == o.conf

\* The larger confidence.
MaxConfidence(row, o) == IF row.conf > o.conf THEN row.conf ELSE o.conf

\* The row UpsertAsset means to write, from what it read and what it was given.
Merged(row, o, t) ==
  IF row = Absent
  THEN [scalar |-> o.scalar, list |-> o.list, conf |-> o.conf, scope |-> o.scope,
        first |-> t, last |-> t]
  ELSE [scalar |-> MergeScalar(row.scalar, o.scalar),
        list |-> UnionAny(row.list, o.list),
        conf |-> MaxConfidence(row, o),
        scope |-> row.scope, first |-> row.first, last |-> t]

\* Mutant: INSERT OR REPLACE.
Replaced(row, new) == new

\* INSERT ... ON CONFLICT DO UPDATE: a row that is there by now keeps its
\* verdict and its first_seen, whatever the writer has read.
Upserted(row, new) ==
  IF row = Absent THEN new
  ELSE [row EXCEPT !.scalar = new.scalar, !.list = new.list, !.conf = new.conf,
                   !.last = new.last]

Init ==
  /\ rows = [s \in Subject |-> Absent]
  /\ now = 0
  /\ pc = [w \in Writer |-> "idle"]
  /\ subject \in [Writer -> Subject]
  /\ obs \in [Writer -> Observation]
  /\ stamp = [w \in Writer |-> 0]
  /\ existing = [w \in Writer |-> Absent]
  /\ upserts = [w \in Writer |-> 0]
  /\ racy = {}
  /\ recorded = [s \in Subject |-> {}]
  /\ base = [w \in Writer |-> {}]

Busy(s) == \E w \in Writer : pc[w] # "idle" /\ subject[w] = s

Begin(w, s, o) ==
  /\ pc[w] = "idle" /\ upserts[w] < MaxUpserts
  /\ upserts' = [upserts EXCEPT ![w] = @ + 1]
  /\ pc' = [pc EXCEPT ![w] = "read"]
  /\ subject' = [subject EXCEPT ![w] = s]
  /\ obs' = [obs EXCEPT ![w] = o]
  /\ stamp' = [stamp EXCEPT ![w] = now]
  /\ racy' = IF Busy(s) THEN racy \union {s} ELSE racy
  /\ UNCHANGED <<rows, now, existing, recorded, base>>

\* Mutant: the row is read only by the first upsert of a writer.
ReadOnce(w) ==
  /\ pc[w] = "read"
  /\ existing' = [existing EXCEPT ![w] = IF upserts[w] = 1 THEN rows[subject[w]] ELSE @]
  /\ base' = [base EXCEPT ![w] = recorded[subject[w]]]
  /\ pc' = [pc EXCEPT ![w] = "write"]
  /\ UNCHANGED <<rows, now, subject, obs, stamp, upserts, racy, recorded>>

\* GetAsset / getEdge.
Read(w) ==
  /\ pc[w] = "read"
  /\ existing' = [existing EXCEPT ![w] = rows[subject[w]]]
  /\ base' = [base EXCEPT ![w] = recorded[subject[w]]]
  /\ pc' = [pc EXCEPT ![w] = "write"]
  /\ UNCHANGED <<rows, now, subject, obs, stamp, upserts, racy, recorded>>

\* The merge of what was read, and the upsert statement.
Write(w) ==
  /\ pc[w] = "write"
  /\ rows' = [rows EXCEPT ![subject[w]] =
                Upserted(@, Merged(existing[w], obs[w], stamp[w]))]
  /\ recorded' = [recorded EXCEPT ![subject[w]] = base[w] \union {obs[w]}]
  /\ pc' = [pc EXCEPT ![w] = "idle"]
  /\ UNCHANGED <<now, subject, obs, stamp, existing, upserts, racy, base>>

\* A statement fails (ctx cancelled, database busy), or the process dies.
Abort(w) ==
  /\ pc[w] \in {"read", "write"}
  /\ pc' = [pc EXCEPT ![w] = "idle"]
  /\ UNCHANGED <<rows, now, subject, obs, stamp, existing, upserts, racy, recorded, base>>

Tick == now < Horizon /\ now' = now + 1 /\ UNCHANGED <<rows, locals, racy, recorded>>

Next ==
  \/ \E w \in Writer : \/ Read(w) \/ Write(w) \/ Abort(w)
                       \/ \E s \in Subject, o \in Observation : Begin(w, s, o)
  \/ Tick

Spec == Init /\ [][Next]_vars

------------------------------------------------------------------------------
(* Properties. *)

TypeOK ==
  /\ rows \in [Subject -> Row \union {Absent}]
  /\ now \in 0..Horizon
  /\ pc \in [Writer -> {"idle", "read", "write"}]
  /\ subject \in [Writer -> Subject]
  /\ obs \in [Writer -> Observation]
  /\ stamp \in [Writer -> 0..Horizon]
  /\ existing \in [Writer -> Row \union {Absent}]
  /\ upserts \in [Writer -> 0..MaxUpserts]
  /\ racy \in SUBSET Subject
  /\ recorded \in [Subject -> SUBSET Observation]
  /\ base \in [Writer -> SUBSET Observation]

Reflects(row, seen) ==
  \A o \in seen : row # Absent /\ o.conf <= row.conf /\ o.list \subseteq row.list

\* An observation is only ever lost to an upsert that had read its row before
\* the observation was written: one that read it later keeps it, and adds its
\* own (store.go:188-190).
ReadIsKept == \A s \in Subject : Reflects(rows[s], recorded[s])

\* The verdicts of the first insert, in_scope and first_seen, never change and
\* a row never goes away, not even when two inserts race (store.go:219).
VerdictsFixed ==
  [][\A s \in Subject : rows[s] # Absent =>
       /\ rows'[s] # Absent
       /\ rows'[s].first = rows[s].first /\ rows'[s].scope = rows[s].scope]_vars

\* A subject whose upserts have not overlapped is as DATA_MODEL.md has it.
Graph == INSTANCE GraphContract

KeepsContract == Graph!Contract

------------------------------------------------------------------------------
(* What the repository says and the code does not do. *)

\* docs/DATA_MODEL.md:220-221: re-observation advances "`last_seen` and
\* `confidence` (max), never destroying earlier evidence".
NeverDestroysEvidence ==
  [][\A s \in Subject : rows[s] # Absent =>
       /\ rows'[s].conf >= rows[s].conf
       /\ rows[s].list \subseteq rows'[s].list
       /\ rows'[s].last >= rows[s].last]_vars

==============================================================================
