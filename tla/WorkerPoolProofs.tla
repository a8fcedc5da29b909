-------------------------- MODULE WorkerPoolProofs ---------------------------
(***************************************************************************)
(* The pool's safety for any number of items and any concurrency argument, *)
(* and that Run implements the contract its callers rely on.               *)
(*                                                                         *)
(* The bound on the calls of fn in progress is not inductive: what bounds  *)
(* them is the count in the channel, so the invariant says what sem counts *)
(* (goroutines that have not given their slot back, and the slot Run has   *)
(* taken for the goroutine it is about to start) and what the WaitGroup    *)
(* counts, and where Run may be once an item was started after the cancel. *)
(***************************************************************************)
EXTENDS WorkerPool, FiniteSetTheorems, TLAPS

Holding == {i \in Items : gor[i] \in {"fn", "slot"}}
Counted == {i \in Items : gor[i] \in {"fn", "slot", "wg"}}

SemCounts == sem = Cardinality(Holding) + (IF pc = "spawn" THEN 1 ELSE 0)
WgCounts == wg = Cardinality(Counted)

\* Items are started in order, and Run leaves the loop for one of two reasons.
InOrder ==
  /\ \A i \in Items : gor[i] = "none" <=> i >= next
  /\ pc \in {"select", "spawn"} => next <= NItems
  /\ pc \in {"wait", "returned"} => cancelled \/ next = NItems + 1

LateInv ==
  /\ late # {} => cancelled /\ pc \in {"check", "wait", "returned"}
  /\ late = {} \/ \E i \in Items : late = {i}

IInv ==
  /\ TypeOK /\ SemCounts /\ WgCounts /\ InOrder /\ LateInv
  /\ pc = "returned" => wg = 0

------------------------------------------------------------------------------

LEMMA ItemsFinite == \A S \in SUBSET Items : IsFiniteSet(S) /\ Cardinality(S) \in Nat
  <1>1. IsFiniteSet(Items)
    BY PoolAssumption, FS_Interval DEF Items
  <1> QED
    BY <1>1, FS_Subset, FS_CardinalityType

LEMMA AddItem ==
  ASSUME NEW S \in SUBSET Items, NEW i \in Items, i \notin S
  PROVE  Cardinality(S \union {i}) = Cardinality(S) + 1
  BY ItemsFinite, FS_AddElement

LEMMA DropItem ==
  ASSUME NEW S \in SUBSET Items, NEW i \in S
  PROVE  Cardinality(S \ {i}) = Cardinality(S) - 1
  BY ItemsFinite, FS_RemoveElement

LEMMA CardinalityNat ==
  /\ Cardinality(Holding) \in Nat /\ Cardinality(Counted) \in Nat /\ Cardinality(InFn) \in Nat
  /\ Cardinality(InFn) <= Cardinality(Holding)
  <1>1. Holding \in SUBSET Items /\ Counted \in SUBSET Items /\ InFn \in SUBSET Holding
    BY DEF Holding, Counted, InFn
  <1> QED
    BY <1>1, ItemsFinite, FS_Subset

LEMMA InitInv == Init => IInv
  <1> SUFFICES ASSUME Init PROVE IInv
    OBVIOUS
  <1>1. PICK c \in Concurrencies : slots = Capacity(c)
    BY DEF Init
  <1>2. slots \in Nat \ {0}
    BY <1>1, PoolAssumption DEF Capacity
  <1>3. TypeOK
    <2>1. next \in 1..(NItems + 1)
      BY PoolAssumption DEF Init
    <2>2. sem \in 0..slots
      BY <1>2 DEF Init
    <2> QED
      BY <1>2, <2>1, <2>2 DEF Init, TypeOK, RunPlaces, GorPlaces
  <1>4. Holding = {} /\ Counted = {}
    BY DEF Init, Holding, Counted
  <1>5. SemCounts /\ WgCounts
    BY <1>4, FS_EmptySet DEF Init, SemCounts, WgCounts
  <1>6. InOrder /\ LateInv
    BY PoolAssumption DEF Init, InOrder, LateInv, Items
  <1> QED
    BY <1>3, <1>5, <1>6 DEF IInv, Init

------------------------------------------------------------------------------

\* Steps that move Run only.
LEMMA RunMoves ==
  ASSUME IInv, Check \/ SelectDone \/ WgWait
  PROVE  IInv'
  <1>1. UNCHANGED <<slots, sem, wg, next, gor, cancelled, late>>
    BY DEF Check, SelectDone, WgWait
  <1>2. Holding' = Holding /\ Counted' = Counted
    BY <1>1 DEF Holding, Counted
  <1>3. pc # "spawn" /\ pc' \in RunPlaces /\ pc' # "spawn"
    BY DEF Check, SelectDone, WgWait, RunPlaces
  <1>4. TypeOK' /\ SemCounts' /\ WgCounts'
    BY <1>1, <1>2, <1>3 DEF IInv, TypeOK, SemCounts, WgCounts
  <1>5. InOrder'
    <2>1. \A i \in Items : gor'[i] = "none" <=> i >= next'
      BY <1>1 DEF IInv, InOrder
    <2>2. next \in 1..(NItems + 1)
      BY DEF IInv, TypeOK
    <2>3. CASE Check
      BY <2>1, <2>2, <2>3, <1>1, PoolAssumption DEF Check, InOrder
    <2>4. CASE SelectDone \/ WgWait
      BY <2>1, <2>4, <1>1 DEF IInv, SelectDone, WgWait, InOrder
    <2> QED
      BY <2>3, <2>4
  <1>6. LateInv' /\ (pc' = "returned" => wg' = 0)
    BY <1>1 DEF IInv, LateInv, Check, SelectDone, WgWait
  <1> QED
    BY <1>4, <1>5, <1>6 DEF IInv

LEMMA AcquireInv ==
  ASSUME IInv, Acquire
  PROVE  IInv'
  <1>1. /\ pc = "select" /\ pc' = "spawn" /\ sem' = sem + 1 /\ sem < slots
        /\ UNCHANGED <<slots, wg, next, gor, cancelled, late>>
    BY DEF Acquire
  <1>2. Holding' = Holding /\ Counted' = Counted
    BY <1>1 DEF Holding, Counted
  <1>3. TypeOK'
    BY <1>1 DEF IInv, TypeOK, RunPlaces
  <1>4. SemCounts' /\ WgCounts'
    BY <1>1, <1>2, CardinalityNat DEF IInv, SemCounts, WgCounts
  <1>5. InOrder' /\ LateInv'
    BY <1>1 DEF IInv, InOrder, LateInv
  <1> QED
    BY <1>1, <1>3, <1>4, <1>5 DEF IInv

LEMMA SpawnInv ==
  ASSUME IInv, Spawn
  PROVE  IInv'
  <1>1. /\ pc = "spawn" /\ pc' = "check" /\ wg' = wg + 1 /\ next' = next + 1
        /\ gor' = [gor EXCEPT ![next] = "fn"]
        /\ late' = IF cancelled THEN late \union {next} ELSE late
        /\ UNCHANGED <<slots, sem, cancelled>>
    BY DEF Spawn
  <1>2. next \in Items /\ gor[next] = "none" /\ late = {} /\ gor \in [Items -> GorPlaces]
    BY <1>1, PoolAssumption DEF IInv, TypeOK, InOrder, LateInv, Items
  <1>3. Holding' = Holding \union {next} /\ next \notin Holding /\ Holding \in SUBSET Items
    BY <1>1, <1>2 DEF Holding
  <1>4. Counted' = Counted \union {next} /\ next \notin Counted /\ Counted \in SUBSET Items
    BY <1>1, <1>2 DEF Counted
  <1>5. SemCounts' /\ WgCounts'
    BY <1>1, <1>2, <1>3, <1>4, AddItem, CardinalityNat DEF IInv, SemCounts, WgCounts
  <1>6. TypeOK'
    BY <1>1, <1>2, PoolAssumption DEF IInv, TypeOK, RunPlaces, GorPlaces, Items
  <1>7. InOrder'
    BY <1>1, <1>2, PoolAssumption DEF IInv, TypeOK, InOrder, Items, GorPlaces
  <1>8. LateInv'
    BY <1>1, <1>2 DEF LateInv
  <1> QED
    BY <1>1, <1>5, <1>6, <1>7, <1>8 DEF IInv

LEMMA FnReturnsInv ==
  ASSUME IInv, NEW i \in Items, FnReturns(i)
  PROVE  IInv'
  <1>1. /\ gor[i] = "fn" /\ gor' = [gor EXCEPT ![i] = "slot"]
        /\ UNCHANGED <<slots, sem, wg, pc, next, cancelled, late>>
    BY DEF FnReturns
  <1>2. gor \in [Items -> GorPlaces]
    BY DEF IInv, TypeOK
  <1>3. Holding' = Holding /\ Counted' = Counted
    BY <1>1, <1>2 DEF Holding, Counted
  <1>4. TypeOK' /\ SemCounts' /\ WgCounts'
    BY <1>1, <1>2, <1>3 DEF IInv, TypeOK, SemCounts, WgCounts, GorPlaces
  <1>5. InOrder' /\ LateInv'
    BY <1>1, <1>2 DEF IInv, InOrder, LateInv
  <1> QED
    BY <1>1, <1>4, <1>5 DEF IInv

LEMMA FreeSlotInv ==
  ASSUME IInv, NEW i \in Items, FreeSlot(i)
  PROVE  IInv'
  <1>1. /\ gor[i] = "slot" /\ sem > 0 /\ sem' = sem - 1 /\ gor' = [gor EXCEPT ![i] = "wg"]
        /\ UNCHANGED <<slots, wg, pc, next, cancelled, late>>
    BY DEF FreeSlot
  <1>2. gor \in [Items -> GorPlaces]
    BY DEF IInv, TypeOK
  <1>3. Holding' = Holding \ {i} /\ i \in Holding /\ Counted' = Counted
        /\ Holding \in SUBSET Items
    BY <1>1, <1>2 DEF Holding, Counted
  <1>4. SemCounts' /\ WgCounts'
    BY <1>1, <1>3, DropItem, CardinalityNat DEF IInv, SemCounts, WgCounts
  <1>5. TypeOK'
    BY <1>1, <1>2 DEF IInv, TypeOK, GorPlaces
  <1>6. InOrder' /\ LateInv'
    BY <1>1, <1>2 DEF IInv, InOrder, LateInv
  <1> QED
    BY <1>1, <1>4, <1>5, <1>6 DEF IInv

LEMMA WgDoneInv ==
  ASSUME IInv, NEW i \in Items, WgDone(i)
  PROVE  IInv'
  <1>1. /\ gor[i] = "wg" /\ wg' = wg - 1 /\ gor' = [gor EXCEPT ![i] = "exited"]
        /\ UNCHANGED <<slots, sem, pc, next, cancelled, late>>
    BY DEF WgDone
  <1>2. gor \in [Items -> GorPlaces]
    BY DEF IInv, TypeOK
  <1>3. Holding' = Holding /\ Counted' = Counted \ {i} /\ i \in Counted
        /\ Counted \in SUBSET Items
    BY <1>1, <1>2 DEF Holding, Counted
  <1>4. WgCounts' /\ SemCounts' /\ wg # 0 /\ wg' \in Nat
    <2>1. Cardinality(Counted \ {i}) = Cardinality(Counted) - 1
      BY <1>3, DropItem
    <2>2. Cardinality(Counted \ {i}) \in Nat
      BY <1>3, ItemsFinite
    <2> QED
      BY <1>1, <1>3, <2>1, <2>2, CardinalityNat DEF IInv, SemCounts, WgCounts
  <1>5. TypeOK'
    BY <1>1, <1>2, <1>4 DEF IInv, TypeOK, GorPlaces
  <1>6. InOrder' /\ LateInv'
    BY <1>1, <1>2 DEF IInv, InOrder, LateInv
  <1> QED
    BY <1>1, <1>4, <1>5, <1>6 DEF IInv

LEMMA NextInv == IInv /\ [Next]_vars => IInv'
  <1> SUFFICES ASSUME IInv, [Next]_vars PROVE IInv'
    OBVIOUS
  <1>1. CASE RunStep
    BY <1>1, RunMoves, AcquireInv, SpawnInv DEF RunStep
  <1>2. ASSUME NEW i \in Items, GorStep(i) PROVE IInv'
    BY <1>2, FnReturnsInv, FreeSlotInv, WgDoneInv DEF GorStep
  <1>3. CASE Cancel
    <2>1. Holding' = Holding /\ Counted' = Counted
      BY <1>3 DEF Cancel, Holding, Counted
    <2> QED
      BY <1>3, <2>1 DEF Cancel, IInv, TypeOK, SemCounts, WgCounts, InOrder, LateInv
  <1>4. CASE UNCHANGED vars
    <2>1. Holding' = Holding /\ Counted' = Counted
      BY <1>4 DEF vars, Holding, Counted
    <2> QED
      BY <1>4, <2>1 DEF vars, IInv, TypeOK, SemCounts, WgCounts, InOrder, LateInv
  <1> QED
    BY <1>1, <1>2, <1>3, <1>4 DEF Next

LEMMA Invariance == Spec => []IInv
  BY InitInv, NextInv, PTL DEF Spec

------------------------------------------------------------------------------

\* The counts of the channel and of the WaitGroup never leave their range.
THEOREM TypeCorrect == Spec => []TypeOK
  <1>1. IInv => TypeOK
    BY DEF IInv
  <1> QED
    BY <1>1, Invariance, PTL

\* No more calls of fn in progress than the concurrency in force (pool.go:11).
THEOREM ConcurrencyIsBounded == Spec => []ConcurrencyBound
  <1>1. IInv => ConcurrencyBound
    BY CardinalityNat DEF IInv, TypeOK, SemCounts, ConcurrencyBound
  <1> QED
    BY <1>1, Invariance, PTL

\* A cancel stops the dispatch, but for one item (pool.go:25-36).
THEOREM LateIsBounded == Spec => []AtMostOneLate
  <1>1. IInv => AtMostOneLate
    <2>1. CASE late = {}
      BY <2>1, FS_EmptySet DEF AtMostOneLate
    <2>2. ASSUME NEW i \in Items, late = {i} PROVE AtMostOneLate
      <3>1. Cardinality({i}) = 1
        BY FS_Singleton
      <3> QED
        BY <2>2, <3>1 DEF AtMostOneLate
    <2> QED
      BY <2>1, <2>2 DEF IInv, LateInv
  <1> QED
    BY <1>1, Invariance, PTL

LEMMA NobodyLeft == IInv /\ pc = "returned" => \A i \in Items : gor[i] \in {"none", "exited"}
  <1> SUFFICES ASSUME IInv, pc = "returned" PROVE \A i \in Items : gor[i] \in {"none", "exited"}
    OBVIOUS
  <1>1. Counted \in SUBSET Items /\ Cardinality(Counted) = 0
    BY DEF IInv, WgCounts, Counted
  <1>2. Counted = {}
    BY <1>1, ItemsFinite, FS_EmptySet
  <1> QED
    BY <1>2 DEF IInv, TypeOK, GorPlaces, Counted

\* When Run has returned, all it has started is over (pool.go:44).
THEOREM ReturnIsDrained == Spec => []Drained
  <1>1. IInv => Drained
    BY NobodyLeft, PoolAssumption DEF IInv, Drained, InOrder, Items
  <1> QED
    BY <1>1, Invariance, PTL

------------------------------------------------------------------------------

\* The initial states of Run are initial states of the contract.
LEMMA InitImplements == Init => Contract!CInit
  <1> SUFFICES ASSUME Init PROVE Contract!CInit
    OBVIOUS
  <1>1. slots \in Nat \ {0}
    BY InitInv DEF IInv, TypeOK
  <1> QED
    BY <1>1 DEF Init, Contract!CInit, InFn

\* Every step of Run is a step of the contract, or leaves it alone.
LEMMA StepImplements == IInv /\ [Next]_vars => [Contract!CNext]_(Contract!cvars)
  <1> SUFFICES ASSUME IInv, [Next]_vars PROVE [Contract!CNext]_(Contract!cvars)
    OBVIOUS
  <1> DEFINE Fin == {i \in Items : gor[i] \in {"slot", "wg", "exited"}}
             Wai == {i \in Items : gor[i] = "none"}
  <1>0. gor \in [Items -> GorPlaces] /\ cancelled \in BOOLEAN
    BY DEF IInv, TypeOK
  <1>1. CASE Check \/ Acquire \/ SelectDone
    BY <1>1, <1>0 DEF Check, Acquire, SelectDone, Contract!cvars, InFn
  <1>2. CASE Spawn
    <2>1. next \in Items /\ gor[next] = "none" /\ late = {} /\ pc = "spawn"
      BY <1>2, PoolAssumption DEF Spawn, IInv, TypeOK, InOrder, LateInv, Items
    <2>2. Cardinality(InFn) < slots
      BY <2>1, CardinalityNat DEF IInv, TypeOK, SemCounts
    <2>3. PICK i \in Items : i = next
      BY <2>1
    <2>4. /\ gor' = [gor EXCEPT ![i] = "fn"] /\ gor[i] = "none"
          /\ late' = (IF cancelled THEN {i} ELSE {})
          /\ UNCHANGED <<slots, cancelled>> /\ pc' = "check"
      BY <1>2, <2>1, <2>3 DEF Spawn
    <2>5. i \in Wai /\ Wai' = Wai \ {i} /\ InFn' = InFn \union {i} /\ Fin' = Fin
      BY <1>0, <2>4 DEF InFn
    <2>6. (late = {})' = ~cancelled
      BY <2>4, <1>0
    <2>7. (pc = "returned")' = (pc = "returned") /\ pc # "returned"
      BY <2>1, <2>4
    <2>8. Contract!Cardinality(InFn) = Cardinality(InFn)
      BY DEF Contract!Cardinality, Cardinality, Contract!IsFiniteSet, IsFiniteSet
    <2>9. Contract!Begin(i)
      BY <2>1, <2>2, <2>4, <2>5, <2>6, <2>7, <2>8 DEF Contract!Begin
    <2> QED
      BY <2>9 DEF Contract!CNext
  <1>3. CASE WgWait
    <2>1. /\ pc # "returned" /\ pc' = "returned" /\ wg = 0 /\ pc = "wait"
          /\ UNCHANGED <<slots, sem, wg, next, gor, cancelled, late>>
      BY <1>3 DEF WgWait
    <2>2. Counted = {}
      BY <2>1, ItemsFinite, FS_EmptySet DEF IInv, WgCounts, Counted
    <2>3. InFn = {}
      BY <2>2 DEF Counted, InFn
    <2>4. cancelled \/ Wai = {}
      BY <2>1, PoolAssumption DEF IInv, InOrder, Items
    <2>5. Contract!Return
      BY <2>1, <2>3, <2>4 DEF Contract!Return, InFn
    <2> QED
      BY <2>5 DEF Contract!CNext
  <1>4. ASSUME NEW i \in Items, FnReturns(i) PROVE Contract!CNext
    <2>1. /\ i \in InFn /\ InFn' = InFn \ {i} /\ Fin' = Fin \union {i} /\ Wai' = Wai
          /\ UNCHANGED <<slots, cancelled, pc, late>>
      BY <1>4, <1>0 DEF FnReturns, InFn
    <2>2. Contract!End(i)
      BY <2>1 DEF Contract!End
    <2> QED
      BY <2>2 DEF Contract!CNext
  <1>5. ASSUME NEW i \in Items, FreeSlot(i) \/ WgDone(i) PROVE UNCHANGED Contract!cvars
    BY <1>5, <1>0 DEF FreeSlot, WgDone, Contract!cvars, InFn
  <1>6. CASE Cancel
    <2>1. Contract!CCancel
      BY <1>6, <1>0 DEF Cancel, Contract!CCancel, InFn
    <2> QED
      BY <2>1 DEF Contract!CNext
  <1>7. CASE UNCHANGED vars
    BY <1>7 DEF vars, Contract!cvars, InFn
  <1> QED
    BY <1>1, <1>2, <1>3, <1>4, <1>5, <1>6, <1>7 DEF Next, RunStep, GorStep

\* Run keeps the contract of the callers that read, without a lock, what their
\* fn has written (portscan/scanner.go:72-86, permute/permute.go:90-149).
THEOREM RunKeepsContract == Spec => KeepsContract
  BY InitImplements, StepImplements, Invariance, PTL DEF Spec, KeepsContract, Contract!Contract

==============================================================================
