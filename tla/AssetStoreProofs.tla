--------------------------- MODULE AssetStoreProofs ---------------------------
(***************************************************************************)
(* The store's safety for any number of writers, rows and observations.    *)
(*                                                                         *)
(* ReadIsKept is made inductive by the same statement about what a writer  *)
(* holds between its read and its write (HeldIsKept).  That upserts of a   *)
(* row that no two have raced for are atomic needs three facts more: at    *)
(* most one upsert of such a row is in progress (Alone), what it has read  *)
(* is still what the table has (Current), and its time is no earlier than  *)
(* the row's (InTime).                                                     *)
(***************************************************************************)
EXTENDS AssetStore, TLAPS

HeldIsKept == \A w \in Writer : pc[w] = "write" => Reflects(existing[w], base[w])

Alone ==
  \A v, w \in Writer :
    pc[v] # "idle" /\ pc[w] # "idle" /\ subject[v] = subject[w] /\ subject[w] \notin racy => v = w

Current ==
  \A w \in Writer : pc[w] = "write" /\ subject[w] \notin racy => existing[w] = rows[subject[w]]

InTime ==
  /\ \A s \in Subject : rows[s] # Absent => rows[s].last <= now
  /\ \A w \in Writer : stamp[w] <= now
  /\ \A w \in Writer :
       pc[w] # "idle" /\ subject[w] \notin racy /\ rows[subject[w]] # Absent =>
         rows[subject[w]].last <= stamp[w]

IInv == TypeOK /\ ReadIsKept /\ HeldIsKept /\ Alone /\ Current /\ InTime

------------------------------------------------------------------------------

\* The merge of what was read with an observation is a row that has both.
LEMMA MergedIsRow ==
  ASSUME NEW row \in Row \union {Absent}, NEW o \in Observation, NEW t \in 0..Horizon
  PROVE  /\ Merged(row, o, t) \in Row
         /\ o.conf <= Merged(row, o, t).conf /\ o.list \subseteq Merged(row, o, t).list
         /\ row # Absent => /\ row.conf <= Merged(row, o, t).conf
                            /\ row.list \subseteq Merged(row, o, t).list
         /\ Merged(row, o, t).last = t
  <1>1. o.conf \in Nat /\ o.scope \in BOOLEAN /\ o.scalar \in Scalars /\ o.list \in Lists
    BY StoreAssumption DEF Scalars, Lists
  <1>2. CASE row = Absent
    BY <1>1, <1>2 DEF Merged, Row
  <1>3. CASE row # Absent
    <2>1. row \in Row
      BY <1>3
    <2>2. MaxConfidence(row, o) \in Nat /\ o.conf <= MaxConfidence(row, o) /\ row.conf <= MaxConfidence(row, o)
      BY <1>1, <2>1 DEF MaxConfidence, Row
    <2>3. MergeScalar(row.scalar, o.scalar) \in Scalars
      BY <1>1, <2>1 DEF MergeScalar, Row
    <2>4. /\ UnionAny(row.list, o.list) \in Lists
          /\ o.list \subseteq UnionAny(row.list, o.list) /\ row.list \subseteq UnionAny(row.list, o.list)
      BY <1>1, <2>1 DEF UnionAny, Row, Lists
    <2>5. Merged(row, o, t) =
            [scalar |-> MergeScalar(row.scalar, o.scalar), list |-> UnionAny(row.list, o.list),
             conf |-> MaxConfidence(row, o), scope |-> row.scope, first |-> row.first, last |-> t]
      BY <1>3 DEF Merged
    <2> HIDE DEF Scalars, Lists, MaxConfidence, MergeScalar, UnionAny
    <2> QED
      BY <2>1, <2>2, <2>3, <2>4, <2>5 DEF Row
  <1> QED
    BY <1>2, <1>3

\* What the upsert statement leaves: of the row that is there its verdicts, of
\* the row that is brought the rest.
LEMMA UpsertedIsRow ==
  ASSUME NEW row \in Row \union {Absent}, NEW new \in Row
  PROVE  /\ Upserted(row, new) \in Row
         /\ Upserted(row, new).conf = new.conf /\ Upserted(row, new).list = new.list
         /\ Upserted(row, new).last = new.last
         /\ row # Absent => /\ Upserted(row, new).first = row.first
                            /\ Upserted(row, new).scope = row.scope
  <1>1. CASE row = Absent
    BY <1>1 DEF Upserted
  <1>2. CASE row # Absent
    BY <1>2 DEF Upserted, Row
  <1> QED
    BY <1>1, <1>2

LEMMA InitInv == Init => IInv
  BY StoreAssumption
  DEF Init, IInv, TypeOK, ReadIsKept, HeldIsKept, Alone, Current, InTime, Reflects

------------------------------------------------------------------------------
(* Every step keeps the invariant. *)

LEMMA BeginInv ==
  ASSUME IInv, NEW w \in Writer, NEW s \in Subject, NEW o \in Observation, Begin(w, s, o)
  PROVE  IInv'
  <1> USE StoreAssumption DEF IInv
  <1>1. TypeOK'
    BY DEF TypeOK, Begin
  <1>2. ReadIsKept'
    BY DEF ReadIsKept, Begin, Reflects
  <1>3. HeldIsKept'
    BY DEF HeldIsKept, Begin, Reflects, TypeOK
  <1>4. Alone'
    <2> SUFFICES ASSUME NEW u \in Writer, NEW v \in Writer,
                        (pc[u] # "idle")', (pc[v] # "idle")', (subject[u] = subject[v])',
                        (subject[v] \notin racy)'
                 PROVE  u = v
      BY DEF Alone
    <2>1. CASE u # w /\ v # w
      BY <2>1 DEF Alone, Begin, TypeOK
    <2>2. CASE u = w /\ v # w
      BY <2>2 DEF Begin, Busy, TypeOK
    <2>3. CASE u # w /\ v = w
      BY <2>3 DEF Begin, Busy, TypeOK
    <2> QED
      BY <2>1, <2>2, <2>3
  <1>5. Current'
    BY DEF Current, Begin, TypeOK
  <1>6. InTime'
    <2>1. \A v \in Writer : stamp'[v] <= now'
      BY DEF InTime, Begin, TypeOK
    <2>2. ASSUME NEW v \in Writer, (pc[v] # "idle")', (subject[v] \notin racy)',
                 (rows[subject[v]] # Absent)'
          PROVE  (rows[subject[v]].last <= stamp[v])'
      <3>1. CASE v = w
        BY <2>2, <3>1 DEF InTime, Begin, TypeOK
      <3>2. CASE v # w
        BY <2>2, <3>2 DEF InTime, Begin, TypeOK
      <3> QED
        BY <3>1, <3>2
    <2> QED
      BY <2>1, <2>2 DEF InTime, Begin
  <1> QED
    BY <1>1, <1>2, <1>3, <1>4, <1>5, <1>6

LEMMA ReadInv ==
  ASSUME IInv, NEW w \in Writer, Read(w)
  PROVE  IInv'
  <1> USE DEF IInv
  <1>1. TypeOK'
    BY DEF TypeOK, Read
  <1>2. ReadIsKept'
    BY DEF ReadIsKept, Read, Reflects
  <1>3. HeldIsKept'
    BY DEF HeldIsKept, ReadIsKept, Read, Reflects, TypeOK
  <1>4. Alone'
    BY DEF Alone, Read, TypeOK
  <1>5. Current'
    BY DEF Current, Read, TypeOK
  <1>6. InTime'
    BY DEF InTime, Read, TypeOK
  <1> QED
    BY <1>1, <1>2, <1>3, <1>4, <1>5, <1>6

LEMMA AbortInv ==
  ASSUME IInv, NEW w \in Writer, Abort(w)
  PROVE  IInv'
  <1> USE DEF IInv
  <1>1. TypeOK'
    BY DEF TypeOK, Abort
  <1>2. ReadIsKept' /\ HeldIsKept'
    BY DEF ReadIsKept, HeldIsKept, Abort, Reflects, TypeOK
  <1>3. Alone' /\ Current' /\ InTime'
    BY DEF Alone, Current, InTime, Abort, TypeOK
  <1> QED
    BY <1>1, <1>2, <1>3

LEMMA TickInv ==
  ASSUME IInv, Tick
  PROVE  IInv'
  <1> USE StoreAssumption DEF IInv
  <1>1. TypeOK'
    BY DEF TypeOK, Tick, locals
  <1>2. ReadIsKept' /\ HeldIsKept'
    BY DEF ReadIsKept, HeldIsKept, Tick, locals, Reflects
  <1>3. Alone' /\ Current'
    BY DEF Alone, Current, Tick, locals
  <1>4. InTime'
    <2>1. \A s \in Subject : rows[s] # Absent => rows[s].last \in 0..Horizon
      BY DEF TypeOK, Row
    <2> QED
      BY <2>1 DEF InTime, Tick, locals, TypeOK
  <1> QED
    BY <1>1, <1>2, <1>3, <1>4

------------------------------------------------------------------------------
(* The write: the row that is left, then one step per part of the invariant. *)

LEMMA WriteInv ==
  ASSUME IInv, NEW w \in Writer, Write(w)
  PROVE  IInv'
  <1> DEFINE t == subject[w]
             new == Merged(existing[w], obs[w], stamp[w])
             left == Upserted(rows[t], new)
  <1>1. /\ t \in Subject /\ rows[t] \in Row \union {Absent} /\ obs[w] \in Observation
        /\ existing[w] \in Row \union {Absent} /\ stamp[w] \in 0..Horizon
    BY DEF IInv, TypeOK
  <1>2. /\ new \in Row /\ new.last = stamp[w]
        /\ obs[w].conf <= new.conf /\ obs[w].list \subseteq new.list
        /\ existing[w] # Absent =>
             existing[w].conf <= new.conf /\ existing[w].list \subseteq new.list
    BY <1>1, MergedIsRow
  <1>3. left \in Row /\ left.conf = new.conf /\ left.list = new.list /\ left.last = stamp[w]
    BY <1>1, <1>2, UpsertedIsRow
  <1>4. /\ rows' = [rows EXCEPT ![t] = left]
        /\ recorded' = [recorded EXCEPT ![t] = base[w] \union {obs[w]}]
        /\ pc[w] = "write" /\ pc' = [pc EXCEPT ![w] = "idle"]
        /\ UNCHANGED <<now, subject, obs, stamp, existing, upserts, racy, base>>
    BY <1>1 DEF Write, IInv, TypeOK
  <1> HIDE DEF new, left
  <1>5. left # Absent
    BY <1>3, StoreAssumption
  <1>6. TypeOK'
    BY <1>1, <1>3, <1>4 DEF IInv, TypeOK
  <1>7. ReadIsKept'
    <2>1. Reflects(left, base[w] \union {obs[w]})
      <3>1. Reflects(existing[w], base[w])
        BY <1>4 DEF IInv, HeldIsKept
      <3>2. ASSUME NEW o \in base[w]
            PROVE  o.conf <= left.conf /\ o.list \subseteq left.list
        <4>1. o.conf <= existing[w].conf /\ existing[w].conf <= left.conf
          BY <1>2, <1>3, <3>1, <3>2 DEF Reflects
        <4>2. o.conf \in Nat /\ existing[w].conf \in Nat /\ left.conf \in Nat
          BY <1>1, <1>3, <3>1, <3>2, StoreAssumption DEF IInv, TypeOK, Reflects, Row
        <4>3. o.list \subseteq left.list
          BY <1>2, <1>3, <3>1, <3>2 DEF Reflects
        <4> QED
          BY <4>1, <4>2, <4>3
      <3> QED
        BY <1>2, <1>3, <1>5, <3>2 DEF Reflects
    <2> QED
      BY <1>1, <1>4, <2>1 DEF IInv, TypeOK, ReadIsKept
  <1>8. HeldIsKept'
    BY <1>4 DEF IInv, TypeOK, HeldIsKept
  <1>9. Alone'
    BY <1>4 DEF IInv, TypeOK, Alone
  <1>10. Current'
    BY <1>1, <1>4 DEF IInv, TypeOK, Alone, Current
  <1>11. InTime'
    <2>1. \A s \in Subject : rows'[s] # Absent => rows'[s].last <= now'
      BY <1>1, <1>3, <1>4 DEF IInv, TypeOK, InTime
    <2>2. \A v \in Writer : stamp'[v] <= now'
      BY <1>4 DEF IInv, InTime
    <2>3. ASSUME NEW v \in Writer, (pc[v] # "idle")', (subject[v] \notin racy)',
                 (rows[subject[v]] # Absent)'
          PROVE  (rows[subject[v]].last <= stamp[v])'
      <3>1. v # w /\ subject[v] # t
        BY <1>4, <2>3 DEF IInv, TypeOK, Alone
      <3> QED
        BY <1>1, <1>4, <2>3, <3>1 DEF IInv, TypeOK, InTime
    <2> QED
      BY <2>1, <2>2, <2>3 DEF InTime
  <1> QED
    BY <1>6, <1>7, <1>8, <1>9, <1>10, <1>11 DEF IInv

LEMMA NextInv == IInv /\ [Next]_vars => IInv'
  <1> SUFFICES ASSUME IInv, [Next]_vars
               PROVE  IInv'
    OBVIOUS
  <1>1. ASSUME NEW w \in Writer, NEW s \in Subject, NEW o \in Observation, Begin(w, s, o)
        PROVE  IInv'
    BY <1>1, BeginInv
  <1>2. ASSUME NEW w \in Writer, Read(w)
        PROVE  IInv'
    BY <1>2, ReadInv
  <1>3. ASSUME NEW w \in Writer, Write(w)
        PROVE  IInv'
    BY <1>3, WriteInv
  <1>4. ASSUME NEW w \in Writer, Abort(w)
        PROVE  IInv'
    BY <1>4, AbortInv
  <1>5. CASE Tick
    BY <1>5, TickInv
  <1>6. CASE UNCHANGED vars
    BY <1>6 DEF vars, IInv, TypeOK, ReadIsKept, HeldIsKept, Alone, Current, InTime, Reflects
  <1> QED
    BY <1>1, <1>2, <1>3, <1>4, <1>5, <1>6 DEF Next

LEMMA Invariance == Spec => []IInv
  BY InitInv, NextInv, PTL DEF Spec

\* Every row is well formed: what merges and upserts leave is of the tables' type.
THEOREM TypeCorrect == Spec => []TypeOK
  <1>1. IInv => TypeOK
    BY DEF IInv
  <1> QED
    BY <1>1, Invariance, PTL

\* An observation is lost only to an upsert that had read its row before the
\* observation was written (store.go:188-190), whoever writes and how many.
THEOREM WhatWasReadIsKept == Spec => []ReadIsKept
  <1>1. IInv => ReadIsKept
    BY DEF IInv
  <1> QED
    BY <1>1, Invariance, PTL

------------------------------------------------------------------------------

\* What a write leaves of its own row's verdicts.
LEMMA WriteKeepsVerdicts ==
  ASSUME IInv, NEW w \in Writer, Write(w)
  PROVE  /\ \A u \in Subject \ {subject[w]} : rows'[u] = rows[u]
         /\ rows'[subject[w]] # Absent
         /\ rows[subject[w]] # Absent =>
              /\ rows'[subject[w]].first = rows[subject[w]].first
              /\ rows'[subject[w]].scope = rows[subject[w]].scope
  <1> DEFINE t == subject[w]
             new == Merged(existing[w], obs[w], stamp[w])
             left == Upserted(rows[t], new)
  <1>1. /\ t \in Subject /\ rows[t] \in Row \union {Absent} /\ obs[w] \in Observation
        /\ existing[w] \in Row \union {Absent} /\ stamp[w] \in 0..Horizon
    BY DEF IInv, TypeOK
  <1>2. new \in Row
    BY <1>1, MergedIsRow
  <1>3. /\ left \in Row
        /\ rows[t] # Absent => left.first = rows[t].first /\ left.scope = rows[t].scope
    BY <1>1, <1>2, UpsertedIsRow
  <1>4. rows' = [rows EXCEPT ![t] = left]
    BY <1>1 DEF Write, IInv, TypeOK
  <1> HIDE DEF new, left
  <1> QED
    BY <1>1, <1>3, <1>4, StoreAssumption DEF IInv, TypeOK

\* in_scope and first_seen are those of the first insert for as long as the
\* table exists, however inserts race (ON CONFLICT DO UPDATE, store.go:219).
THEOREM VerdictsNeverChange == Spec => VerdictsFixed
  <1>1. IInv /\ [Next]_vars =>
          [\A s \in Subject : rows[s] # Absent =>
             /\ rows'[s] # Absent
             /\ rows'[s].first = rows[s].first /\ rows'[s].scope = rows[s].scope]_vars
    <2> SUFFICES ASSUME IInv, Next, NEW s \in Subject, rows[s] # Absent
                 PROVE  /\ rows'[s] # Absent
                        /\ rows'[s].first = rows[s].first /\ rows'[s].scope = rows[s].scope
      OBVIOUS
    <2>1. ASSUME NEW w \in Writer, Write(w)
          PROVE  /\ rows'[s] # Absent
                 /\ rows'[s].first = rows[s].first /\ rows'[s].scope = rows[s].scope
      <3>1. CASE s = subject[w]
        BY <2>1, <3>1, WriteKeepsVerdicts
      <3>2. CASE s # subject[w]
        BY <2>1, <3>2, WriteKeepsVerdicts
      <3> QED
        BY <3>1, <3>2
    <2>2. CASE rows' = rows
      BY <2>2
    <2> QED
      BY <2>1, <2>2 DEF Next, Begin, Read, Abort, Tick
  <1> QED
    BY <1>1, Invariance, PTL DEF Spec, VerdictsFixed

------------------------------------------------------------------------------
(* The store implements GraphContract. *)

\* An upsert that read the row it then writes is one observation.
LEMMA UpsertIsObservation ==
  ASSUME NEW row \in Row \union {Absent}, NEW o \in Observation, NEW t \in 0..Horizon
  PROVE  Upserted(row, Merged(row, o, t)) = Graph!Known(row, o, t)
  <1>1. CASE row = Absent
    BY <1>1 DEF Upserted, Merged, Graph!Known
  <1>2. CASE row # Absent
    <2>1. row \in Row
      BY <1>2
    <2>2. Merged(row, o, t) =
            [scalar |-> MergeScalar(row.scalar, o.scalar), list |-> UnionAny(row.list, o.list),
             conf |-> MaxConfidence(row, o), scope |-> row.scope, first |-> row.first, last |-> t]
      BY <1>2 DEF Merged
    <2>3. /\ MergeScalar(row.scalar, o.scalar) = IF o.scalar = NoScalar THEN row.scalar ELSE o.scalar
          /\ UnionAny(row.list, o.list) = row.list \union o.list
          /\ MaxConfidence(row, o) = Graph!Larger(row.conf, o.conf)
      BY DEF MergeScalar, UnionAny, MaxConfidence, Graph!Larger
    <2> HIDE DEF MergeScalar, UnionAny, MaxConfidence, Merged
    <2>4. Upserted(row, Merged(row, o, t)) =
            [row EXCEPT !.scalar = Merged(row, o, t).scalar, !.list = Merged(row, o, t).list,
                        !.conf = Merged(row, o, t).conf, !.last = Merged(row, o, t).last]
      BY <1>2 DEF Upserted
    <2>5. Upserted(row, Merged(row, o, t)) =
            [row EXCEPT !.scalar = MergeScalar(row.scalar, o.scalar),
                        !.list = UnionAny(row.list, o.list),
                        !.conf = MaxConfidence(row, o), !.last = t]
      BY <2>2, <2>4
    <2> QED
      BY <1>2, <2>3, <2>5 DEF Graph!Known
  <1> QED
    BY <1>1, <1>2

\* One step of the store is one step of the contract, or none.
LEMMA StepImplements ==
  IInv /\ [Next]_vars => [\E s \in Subject : Graph!Observe(s) \/ Graph!Race(s)]_<<rows, racy>>
  <1> SUFFICES ASSUME IInv, [Next]_vars
               PROVE  \/ \E s \in Subject : Graph!Observe(s) \/ Graph!Race(s)
                      \/ UNCHANGED <<rows, racy>>
    OBVIOUS
  <1>1. ASSUME NEW w \in Writer, NEW s \in Subject, NEW o \in Observation, Begin(w, s, o)
        PROVE  Graph!Race(s) \/ UNCHANGED <<rows, racy>>
    BY <1>1 DEF Begin, Graph!Race
  <1>2. ASSUME NEW w \in Writer, Write(w)
        PROVE  \E s \in Subject : Graph!Observe(s) \/ Graph!Race(s)
    <2>1. PICK s \in Subject : s = subject[w]
      BY DEF IInv, TypeOK
    <2>2. CASE s \in racy
      <3>1. racy' = racy \union {s}
        BY <1>2, <2>2 DEF Write
      <3> QED
        BY <1>2, <2>1, <3>1, WriteKeepsVerdicts DEF Graph!Race
    <2>3. CASE s \notin racy
      <3>1. PICK o \in Observation, t \in 0..Horizon : o = obs[w] /\ t = stamp[w]
        BY DEF IInv, TypeOK
      <3>2. rows[s] \in Row \union {Absent} /\ existing[w] = rows[s]
        BY <1>2, <2>1, <2>3 DEF Write, IInv, TypeOK, Current
      <3>3. rows[s] = Absent \/ rows[s].last <= t
        BY <1>2, <2>1, <2>3, <3>1 DEF Write, IInv, InTime
      <3>4. rows' = [rows EXCEPT ![s] = Upserted(rows[s], Merged(rows[s], o, t))]
        BY <1>2, <2>1, <3>1, <3>2 DEF Write, IInv, TypeOK
      <3>5. rows' = [rows EXCEPT ![s] = Graph!Known(rows[s], o, t)]
        BY <3>2, <3>4, UpsertIsObservation
      <3>6. racy' = racy
        BY <1>2 DEF Write
      <3>7. Graph!Observe(s)
        BY <2>3, <3>3, <3>5, <3>6 DEF Graph!Observe
      <3> QED
        BY <3>7
    <2> QED
      BY <2>2, <2>3
  <1>3. ASSUME NEW w \in Writer, Read(w) \/ Abort(w)
        PROVE  UNCHANGED <<rows, racy>>
    BY <1>3 DEF Read, Abort
  <1>4. CASE Tick
    BY <1>4 DEF Tick
  <1>5. CASE UNCHANGED vars
    BY <1>5 DEF vars
  <1> QED
    BY <1>1, <1>2, <1>3, <1>4, <1>5 DEF Next

\* What the documents promise of a row holds of every row that no two upserts
\* have raced for, and of the others the verdicts of the first insert.
THEOREM UpsertsKeepContract == Spec => KeepsContract
  <1>1. Init => Graph!GInit
    BY DEF Init, Graph!GInit
  <1> QED
    BY <1>1, StepImplements, Invariance, PTL DEF Spec, KeepsContract, Graph!Contract

==============================================================================
