----------------------------- MODULE RateLimiter -----------------------------
(***************************************************************************)
(* The token bucket of internal/ratelimit/limiter.go, shared by every      *)
(* goroutine that sends a DNS query or a port probe.                       *)
(*                                                                         *)
(* Time is a discrete clock and a token is Unit units of credit, so that   *)
(* the bucket level, a float64 in the code, is an integer here: `rate' is  *)
(* the credit earned per tick, and rate * TicksPerSecond / Unit the        *)
(* configured operations per second.  take() runs under the limiter's      *)
(* mutex and is one action; the select of Wait is the two actions CtxDone  *)
(* and TimerFires, both of which may be enabled at once.                   *)
(***************************************************************************)
EXTENDS Integers, Sequences

CONSTANTS Caller,           \* goroutines that call Wait, each with its own ctx
          Unit,             \* units of credit in one token
          TicksPerSecond,   \* clock ticks in one second
          Rates,            \* the rates New may be called with, units per tick
          MaxTime,          \* bound: the clock stops here
          MaxCalls,         \* bound: calls of Wait by one caller
          LastCall          \* bound: no call of Wait begins after this time

ASSUME ConstantsAssumption ==
  /\ Unit \in Nat \ {0}
  /\ TicksPerSecond \in Nat \ {0}
  /\ Rates \subseteq Int
  /\ MaxTime \in Nat /\ MaxCalls \in Nat /\ LastCall \in Nat

VARIABLES rate, burst, tokens, last,   \* the fields of Limiter
          now,                         \* the clock, 0 when New returns
          pc, wakeAt, calls,           \* per caller: place in Wait, timer, calls made
          done,                        \* callers whose ctx is cancelled
          takes                        \* history: the times of the tokens granted

bucket == <<rate, burst, tokens, last>>
vars == <<rate, burst, tokens, last, now, pc, wakeAt, calls, done, takes>>

\* "take": about to call take(); "sleep": in the select; the last two: returned.
Places == {"idle", "take", "sleep", "granted", "cancelled"}

Unlimited == rate <= 0

------------------------------------------------------------------------------
(* The code. *)

\* Mutant: one second of tokens, even when that is less than one token.
BurstOfRate(r) == IF r > 0 THEN r * TicksPerSecond ELSE 0

\* The burst New computes: one second of tokens, at least one token.
BurstOf(r) == IF r * TicksPerSecond < Unit THEN Unit ELSE r * TicksPerSecond

Init ==
  /\ rate \in Rates
  /\ burst = BurstOf(rate)
  /\ tokens = burst
  /\ last = 0 /\ now = 0
  /\ pc = [p \in Caller |-> "idle"]
  /\ wakeAt = [p \in Caller |-> 0]
  /\ calls = [p \in Caller |-> 0]
  /\ done = {}
  /\ takes = <<>>

\* A caller enters Wait.  An unlimited limiter returns nil before the bucket.
Call(p) ==
  /\ pc[p] \in {"idle", "granted", "cancelled"}
  /\ calls[p] < MaxCalls /\ now <= LastCall
  /\ calls' = [calls EXCEPT ![p] = @ + 1]
  /\ pc' = [pc EXCEPT ![p] = IF Unlimited THEN "granted" ELSE "take"]
  /\ UNCHANGED <<bucket, now, wakeAt, done, takes>>

\* Mutant: the refill without the cap at burst.
RefilledUncapped(t) == tokens + rate * (t - last)

\* The bucket after the refill take() does at time t.
Refilled(t) ==
  LET level == tokens + rate * (t - last)
  IN  IF level > burst THEN burst ELSE level

\* Mutant: the delay of a whole token, whatever the bucket already holds.
DelayOfWholeToken(level) == (Unit + rate - 1) \div rate

\* How long a caller that found `level' < Unit sleeps.  time.Duration truncates.
RetryDelay(level) == (Unit - level) \div rate

\* Mutant: any credit at all passes for a token.
HasSomeCredit(level) == level > 0

HasToken(level) == level >= Unit

\* take(): refill and consume a token if there is one, all under l.mu.
Take(p) ==
  /\ pc[p] = "take"
  /\ last' = now
  /\ IF HasToken(Refilled(now))
     THEN /\ tokens' = Refilled(now) - Unit
          /\ pc' = [pc EXCEPT ![p] = "granted"]
          /\ takes' = Append(takes, now)
          /\ UNCHANGED wakeAt
     ELSE /\ tokens' = Refilled(now)
          /\ pc' = [pc EXCEPT ![p] = "sleep"]
          /\ wakeAt' = [wakeAt EXCEPT ![p] = now + RetryDelay(Refilled(now))]
          /\ UNCHANGED takes
  /\ UNCHANGED <<rate, burst, now, calls, done>>

\* The timer branch of the select: back to take(), with no claim on a token.
TimerFires(p) ==
  /\ pc[p] = "sleep" /\ now >= wakeAt[p]
  /\ pc' = [pc EXCEPT ![p] = "take"]
  /\ UNCHANGED <<bucket, now, wakeAt, calls, done, takes>>

\* Mutant: the ctx of a sleeping caller is looked at once its timer has fired.
CtxDoneAtTimer(p) ==
  /\ pc[p] = "sleep" /\ p \in done /\ now >= wakeAt[p]
  /\ pc' = [pc EXCEPT ![p] = "cancelled"]
  /\ UNCHANGED <<bucket, now, wakeAt, calls, done, takes>>

\* The ctx.Done() branch of the select: Wait returns ctx.Err().
CtxDone(p) ==
  /\ pc[p] = "sleep" /\ p \in done
  /\ pc' = [pc EXCEPT ![p] = "cancelled"]
  /\ UNCHANGED <<bucket, now, wakeAt, calls, done, takes>>

\* Environment: a caller's ctx is cancelled, and the clock advances.
Cancel(p) ==
  /\ p \notin done
  /\ done' = done \union {p}
  /\ UNCHANGED <<bucket, now, pc, wakeAt, calls, takes>>

Tick ==
  /\ now < MaxTime
  /\ now' = now + 1
  /\ UNCHANGED <<bucket, pc, wakeAt, calls, done, takes>>

Next ==
  \/ \E p \in Caller : Call(p) \/ Take(p) \/ TimerFires(p) \/ CtxDone(p) \/ Cancel(p)
  \/ Tick

\* A goroutine that can run does.  A select whose two cases are ready picks one
\* at random, so the cancelled case is not passed over for ever (SF).  Nothing
\* is assumed of the clock, of cancellation or of new calls.
Fairness ==
  \A p \in Caller : WF_vars(Take(p)) /\ WF_vars(TimerFires(p)) /\ SF_vars(CtxDone(p))

Spec == Init /\ [][Next]_vars /\ Fairness

\* The same limiter on a machine that is not overloaded: the clock goes on, also
\* while callers whose delay was truncated to zero spin (SF), and it does not pass
\* over a caller that would be granted a token.  Only EveryCallReturns needs it:
\* credit that overflows the bucket while no caller is scheduled is lost.
PromptTick ==
  /\ Tick
  /\ HasToken(Refilled(now)) =>
       \A p \in Caller : pc[p] # "take" /\ (pc[p] = "sleep" => now <= wakeAt[p])

PromptNext ==
  \/ \E p \in Caller : Call(p) \/ Take(p) \/ TimerFires(p) \/ CtxDone(p) \/ Cancel(p)
  \/ PromptTick

PromptSpec == Init /\ [][PromptNext]_vars /\ Fairness /\ SF_vars(PromptTick)

------------------------------------------------------------------------------
(* Properties. *)

TypeOK ==
  /\ rate \in Rates /\ burst \in Nat /\ tokens \in Nat
  /\ last \in Nat /\ now \in Nat /\ last <= now
  /\ pc \in [Caller -> Places]
  /\ wakeAt \in [Caller -> Nat]
  /\ calls \in [Caller -> Nat]
  /\ done \in SUBSET Caller
  /\ takes \in Seq(Nat)

\* However many goroutines share the limiter and however they interleave, the
\* tokens granted between any two grants exceed one burst by no more than what
\* the rate earned in between: the promise of a token bucket (limiter.go:23-25).
WindowBound ==
  ~Unlimited => \A i, j \in 1..Len(takes) :
    i <= j => Unit * (j - i + 1) <= burst + rate * (takes[j] - takes[i])

\* A caller in the select is never asleep past the instant the bucket, as it
\* is, holds a token: whatever others took or refilled since, its timer fires
\* no later than its token is due, so no credit is left unused while it sleeps.
NoOversleep ==
  \A p \in Caller :
    pc[p] = "sleep" => tokens + rate * (wakeAt[p] - last) <= Unit

\* A caller whose ctx is cancelled leaves Wait, even if the clock stands still
\* (its timer is far away) and whatever the other callers do.
CancelReturns ==
  \A p \in Caller : (p \in done /\ pc[p] = "sleep") ~> pc[p] \notin {"take", "sleep"}

\* On a clock that goes on long enough for the credit the calls need, every Wait
\* returns: nobody is forgotten though no grant wakes a waiter, several timers
\* fire for one token, and a rate may be below one token per second.
EveryCallReturns ==
  \A p \in Caller : (pc[p] = "take") ~> pc[p] \in {"granted", "cancelled"}

==============================================================================
