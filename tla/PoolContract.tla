---------------------------- MODULE PoolContract -----------------------------
(***************************************************************************)
(* What the callers of workerpool.Run rely on (portscan/scanner.go:72-86,  *)
(* permute/permute.go:90-149, subdomain/subdomain.go:41-96):               *)
(* each item is worked on at most once and at most `limit' at a time; once *)
(* the ctx is cancelled at most one more item is begun; and when Run has   *)
(* returned no item is being worked on, and none is left out unless the    *)
(* ctx was cancelled.  The slices and maps the callers fill in fn are read *)
(* after Run without a lock because of the last promise.                   *)
(***************************************************************************)
EXTENDS Integers, FiniteSets

CONSTANT Item   \* the items of the slice

VARIABLES limit,                         \* the concurrency in force
          waiting, running, finished,  \* the items, by what became of them
          cancelled, returned,
          grace                        \* may one more item begin after the cancel?

cvars == <<limit, waiting, running, finished, cancelled, returned, grace>>

CInit ==
  /\ limit \in Nat \ {0}
  /\ waiting = Item /\ running = {} /\ finished = {}
  /\ cancelled = FALSE /\ returned = FALSE /\ grace = TRUE

Begin(i) ==
  /\ ~returned /\ i \in waiting
  /\ Cardinality(running) < limit
  /\ cancelled => grace
  /\ waiting' = waiting \ {i}
  /\ running' = running \union {i}
  /\ grace' = ~cancelled
  /\ UNCHANGED <<limit, finished, cancelled, returned>>

End(i) ==
  /\ i \in running
  /\ running' = running \ {i}
  /\ finished' = finished \union {i}
  /\ UNCHANGED <<limit, waiting, cancelled, returned, grace>>

CCancel ==
  /\ ~cancelled /\ cancelled' = TRUE
  /\ UNCHANGED <<limit, waiting, running, finished, returned, grace>>

Return ==
  /\ ~returned /\ running = {} /\ (waiting = {} \/ cancelled)
  /\ returned' = TRUE
  /\ UNCHANGED <<limit, waiting, running, finished, cancelled, grace>>

CNext == (\E i \in Item : Begin(i) \/ End(i)) \/ CCancel \/ Return

Contract == CInit /\ [][CNext]_cvars

==============================================================================
