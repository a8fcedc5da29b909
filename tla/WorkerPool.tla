----------------------------- MODULE WorkerPool ------------------------------
(***************************************************************************)
(* internal/workerpool/pool.go: one call of Run.  The caller's goroutine   *)
(* walks the items, taking a slot of the semaphore channel for each and    *)
(* starting a goroutine for it; every goroutine calls fn, gives its slot   *)
(* back, then tells the WaitGroup (the defers run last in, first out).     *)
(* The context may be cancelled at any moment.                             *)
(***************************************************************************)
EXTENDS Integers, FiniteSets

CONSTANTS NItems,         \* the length of items
          Concurrencies   \* the concurrency arguments to consider

ASSUME PoolAssumption == NItems \in Nat /\ Concurrencies \subseteq Int

VARIABLES slots,      \* the capacity of sem
          sem,        \* tokens in sem
          wg,         \* the WaitGroup's counter
          pc,         \* where Run is
          next,       \* the index of the item Run is at
          gor,        \* per item, where its goroutine is
          cancelled,  \* ctx is done
          late        \* history: the items started after the cancel

vars == <<slots, sem, wg, pc, next, gor, cancelled, late>>

Items == 1..NItems
RunPlaces == {"check", "select", "spawn", "wait", "returned"}
GorPlaces == {"none", "fn", "slot", "wg", "exited"}

InFn == {i \in Items : gor[i] = "fn"}

------------------------------------------------------------------------------
(* The code. *)

\* Mutant: the argument as it is given.
CapacityGiven(c) == c

\* A concurrency below one is taken as one.
Capacity(c) == IF c < 1 THEN 1 ELSE c

Init ==
  /\ \E c \in Concurrencies : slots = Capacity(c)
  /\ sem = 0 /\ wg = 0
  /\ pc = "check" /\ next = 1
  /\ gor = [i \in Items |-> "none"]
  /\ cancelled = FALSE
  /\ late = {}

\* Mutant: no ctx.Err() before the select.
CheckOnlyItems ==
  /\ pc = "check"
  /\ pc' = IF next > NItems THEN "wait" ELSE "select"
  /\ UNCHANGED <<slots, sem, wg, next, gor, cancelled, late>>

\* Head of the loop: no item left, or the explicit ctx.Err() check.
Check ==
  /\ pc = "check"
  /\ pc' = IF next > NItems \/ cancelled THEN "wait" ELSE "select"
  /\ UNCHANGED <<slots, sem, wg, next, gor, cancelled, late>>

\* The select: a send on sem, when it has room ...
Acquire ==
  /\ pc = "select" /\ sem < slots
  /\ sem' = sem + 1
  /\ pc' = "spawn"
  /\ UNCHANGED <<slots, wg, next, gor, cancelled, late>>

\* Mutant: a break that leaves the select and not the loop.
SelectBroken ==
  /\ pc = "select" /\ cancelled
  /\ pc' = "spawn"
  /\ UNCHANGED <<slots, sem, wg, next, gor, cancelled, late>>

\* ... or the ctx; when both are ready, either may be chosen.
SelectDone ==
  /\ pc = "select" /\ cancelled
  /\ pc' = "wait"
  /\ UNCHANGED <<slots, sem, wg, next, gor, cancelled, late>>

\* Mutant: wg.Add(1) inside the goroutine, after Run may already wait.
SpawnAddLater ==
  /\ pc = "spawn"
  /\ gor' = [gor EXCEPT ![next] = "fn"]
  /\ late' = IF cancelled THEN late \union {next} ELSE late
  /\ next' = next + 1
  /\ pc' = "check"
  /\ UNCHANGED <<slots, sem, wg, cancelled>>

\* wg.Add(1) and the go statement.
Spawn ==
  /\ pc = "spawn"
  /\ wg' = wg + 1
  /\ gor' = [gor EXCEPT ![next] = "fn"]
  /\ late' = IF cancelled THEN late \union {next} ELSE late
  /\ next' = next + 1
  /\ pc' = "check"
  /\ UNCHANGED <<slots, sem, cancelled>>

\* fn returns in the goroutine of item i.
FnReturns(i) ==
  /\ gor[i] = "fn"
  /\ gor' = [gor EXCEPT ![i] = "slot"]
  /\ UNCHANGED <<slots, sem, wg, pc, next, cancelled, late>>

\* Mutant: the goroutine ends without its receive from sem.
KeepSlot(i) ==
  /\ gor[i] = "slot"
  /\ gor' = [gor EXCEPT ![i] = "wg"]
  /\ UNCHANGED <<slots, sem, wg, pc, next, cancelled, late>>

\* The first deferred call to run, <-sem.
FreeSlot(i) ==
  /\ gor[i] = "slot" /\ sem > 0
  /\ sem' = sem - 1
  /\ gor' = [gor EXCEPT ![i] = "wg"]
  /\ UNCHANGED <<slots, wg, pc, next, cancelled, late>>

\* The last, wg.Done().
WgDone(i) ==
  /\ gor[i] = "wg"
  /\ wg' = wg - 1
  /\ gor' = [gor EXCEPT ![i] = "exited"]
  /\ UNCHANGED <<slots, sem, pc, next, cancelled, late>>

\* wg.Wait() returns, and with it Run.
WgWait ==
  /\ pc = "wait" /\ wg = 0
  /\ pc' = "returned"
  /\ UNCHANGED <<slots, sem, wg, next, gor, cancelled, late>>

\* Environment: SIGINT, or the parent context's deadline.
Cancel ==
  /\ ~cancelled /\ cancelled' = TRUE
  /\ UNCHANGED <<slots, sem, wg, pc, next, gor, late>>

RunStep == Check \/ Acquire \/ SelectDone \/ Spawn \/ WgWait
GorStep(i) == FnReturns(i) \/ FreeSlot(i) \/ WgDone(i)

Next == RunStep \/ (\E i \in Items : GorStep(i)) \/ Cancel

\* Every goroutine that can run does; that fn returns is the callers' part of
\* the bargain (their dials and queries have deadlines).  No fairness of Cancel.
Spec ==
  /\ Init /\ [][Next]_vars
  /\ WF_vars(RunStep)
  /\ \A i \in Items : WF_vars(GorStep(i))

------------------------------------------------------------------------------
(* Properties. *)

TypeOK ==
  /\ slots \in Nat \ {0} /\ sem \in 0..slots /\ wg \in Nat
  /\ pc \in RunPlaces
  /\ next \in 1..(NItems + 1)
  /\ gor \in [Items -> GorPlaces]
  /\ cancelled \in BOOLEAN
  /\ late \in SUBSET Items

\* No more calls of fn are in progress than the concurrency allows, although
\* slots are given back by goroutines and taken by Run (pool.go:11).
ConcurrencyBound == Cardinality(InFn) <= slots

\* The race of a cancel with the select lets at most one item through: a
\* context that is done stops the dispatch at the next item (pool.go:25-28).
AtMostOneLate == Cardinality(late) <= 1

\* When Run has returned every goroutine it started is past fn and past its
\* slot, so what fn wrote may be read without a lock; and unless the ctx was
\* cancelled no item was left out.
Drained ==
  pc = "returned" =>
    /\ \A i \in Items : gor[i] \in {"none", "exited"}
    /\ cancelled \/ \A i \in Items : gor[i] = "exited"

\* Run returns, for every concurrency argument and wherever the cancel falls.
RunReturns == <>(pc = "returned")

\* Run keeps the contract its callers rely on.
Contract == INSTANCE PoolContract WITH
  Item <- Items, limit <- slots,
  waiting <- {i \in Items : gor[i] = "none"},
  running <- InFn,
  finished <- {i \in Items : gor[i] \in {"slot", "wg", "exited"}},
  cancelled <- cancelled, returned <- pc = "returned",
  grace <- late = {}

KeepsContract == Contract!Contract

==============================================================================
