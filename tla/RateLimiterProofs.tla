-------------------------- MODULE RateLimiterProofs --------------------------
(***************************************************************************)
(* Type correctness, the window bound and the absence of oversleeping of   *)
(* the token bucket, for every number of callers and every rate.           *)
(*                                                                         *)
(* The window bound speaks of pairs of past grants and is not inductive:   *)
(* nothing in it says what the bucket holds now.  Ledger adds the pair of  *)
(* a past grant and the present: what was taken since then and what the    *)
(* bucket still holds exceed a burst by no more than what was earned since.*)
(***************************************************************************)
EXTENDS RateLimiter, TLAPS

Ledger ==
  \A i \in 1..Len(takes) :
    /\ takes[i] <= last
    /\ Unit * (Len(takes) - i + 1) + tokens <= burst + rate * (last - takes[i])

\* A caller is in the loop of Wait only if the limiter limits.
InLoopLimited == \A p \in Caller : pc[p] \in {"take", "sleep"} => ~Unlimited

IInv ==
  /\ TypeOK
  /\ tokens <= burst
  /\ InLoopLimited
  /\ ~Unlimited => Ledger
  /\ WindowBound
  /\ NoOversleep

------------------------------------------------------------------------------

\* What a delay truncated to whole ticks earns is no more than the deficit.
LEMMA DivBound ==
  ASSUME NEW a \in Nat, NEW r \in Nat \ {0}
  PROVE  a \div r \in Nat /\ r * (a \div r) <= a
  BY SMT

\* The credit of adjacent spans of time adds up.
LEMMA CreditAdds ==
  ASSUME NEW r \in Int, NEW a \in Int, NEW b \in Int, NEW c \in Int
  PROVE  r * (c - a) = r * (b - a) + r * (c - b)
  BY SMT

LEMMA CreditNat ==
  ASSUME NEW r \in Nat, NEW a \in Nat
  PROVE  r * a \in Nat
  BY SMT

\* If w is what a window has taken and e what it has earned, then taking u more
\* from a bucket refilled by at most g keeps the balance.
LEMMA Balance ==
  ASSUME NEW w \in Int, NEW t \in Int, NEW t2 \in Int, NEW b \in Int, NEW e \in Int,
         NEW g \in Int, NEW u \in Int,
         w + t <= b + e, t2 + u <= t + g
  PROVE  w + u + t2 <= b + (e + g)
  BY SMT

LEMMA BalanceOfRefill ==
  ASSUME NEW w \in Int, NEW t \in Int, NEW t2 \in Int, NEW b \in Int, NEW e \in Int,
         NEW g \in Int,
         w + t <= b + e, t2 <= t + g
  PROVE  w + t2 <= b + (e + g)
  BY SMT

\* What a window has taken, without what is left.
LEMMA WithoutRest ==
  ASSUME NEW w \in Int, NEW t \in Nat, NEW e \in Int, w + t <= e
  PROVE  w <= e
  BY SMT

\* A token due after e more credit is due after f more, once g of e has come in.
LEMMA StillDue ==
  ASSUME NEW t \in Int, NEW t2 \in Int, NEW e \in Int, NEW f \in Int, NEW g \in Int,
         NEW u \in Int,
         t + e <= u, e = g + f, t2 <= t + g
  PROVE  t2 + f <= u
  BY SMT

\* The refill of limiter.go:67-71 neither invents credit nor overflows.
LEMMA RefillBound ==
  ASSUME TypeOK, ~Unlimited, tokens <= burst
  PROVE  /\ Refilled(now) \in Nat
         /\ Refilled(now) <= burst
         /\ Refilled(now) <= tokens + rate * (now - last)
  <1>1. rate \in Nat \ {0}
    BY ConstantsAssumption DEF TypeOK, Unlimited
  <1>2. now - last \in Nat /\ tokens \in Nat /\ burst \in Nat
    BY DEF TypeOK
  <1>3. rate * (now - last) \in Nat
    BY <1>1, <1>2, CreditNat
  <1> QED
    BY <1>2, <1>3 DEF Refilled

LEMMA InitInv == Init => IInv
  <1> SUFFICES ASSUME Init PROVE IInv
    OBVIOUS
  <1>1. rate \in Int /\ Unit \in Nat \ {0} /\ TicksPerSecond \in Nat \ {0}
    BY ConstantsAssumption DEF Init
  <1>2. rate * TicksPerSecond \in Int
    BY <1>1
  <1>3. BurstOf(rate) \in Nat
    BY <1>1, <1>2 DEF BurstOf
  <1>4. TypeOK
    BY <1>3 DEF Init, TypeOK, Places
  <1>5. Len(takes) = 0
    BY DEF Init
  <1>6. tokens <= burst
    BY <1>3 DEF Init
  <1> QED
    BY <1>4, <1>5, <1>6 DEF IInv, Init, InLoopLimited, Ledger, WindowBound, NoOversleep

------------------------------------------------------------------------------

\* A take that finds a token.
LEMMA GrantInv ==
  ASSUME IInv, NEW p \in Caller, Take(p), HasToken(Refilled(now))
  PROVE  IInv'
  <1>1. TypeOK /\ tokens <= burst /\ ~Unlimited /\ Ledger /\ WindowBound /\ NoOversleep
        /\ InLoopLimited
    BY DEF IInv, Take, InLoopLimited
  <1>2. /\ tokens' = Refilled(now) - Unit /\ last' = now
        /\ pc' = [pc EXCEPT ![p] = "granted"]
        /\ takes' = Append(takes, now)
        /\ UNCHANGED <<rate, burst, now, wakeAt, calls, done>>
    BY DEF Take
  <1>3. /\ Refilled(now) \in Nat /\ Refilled(now) <= burst
        /\ Refilled(now) <= tokens + rate * (now - last)
    BY <1>1, RefillBound
  <1>4. Unit \in Nat \ {0} /\ Refilled(now) >= Unit
    BY ConstantsAssumption DEF HasToken
  <1>5. tokens' \in Nat /\ tokens' <= burst'
    BY <1>2, <1>3, <1>4, <1>1 DEF TypeOK
  <1>6. rate \in Nat \ {0} /\ now \in Nat /\ last \in Nat /\ last <= now /\ burst \in Nat
        /\ tokens \in Nat /\ takes \in Seq(Nat)
    BY <1>1, ConstantsAssumption DEF TypeOK, Unlimited
  <1>7. takes' \in Seq(Nat) /\ Len(takes') = Len(takes) + 1
    BY <1>2, <1>6
  <1>8. \A i \in 1..Len(takes) : takes'[i] = takes[i] /\ takes[i] \in Nat
    BY <1>2, <1>6
  <1>9. takes'[Len(takes) + 1] = now
    BY <1>2, <1>6
  <1>10. TypeOK'
    BY <1>1, <1>2, <1>5, <1>7 DEF TypeOK, Places
  <1>11. (~Unlimited)' /\ InLoopLimited'
    BY <1>1, <1>2 DEF Unlimited, InLoopLimited, TypeOK
  <1> DEFINE n == Len(takes)
             gain == rate * (now - last)
  <1>12. n \in Nat /\ gain \in Int
    BY <1>6
  <1>13. ASSUME NEW i \in 1..n
         PROVE  /\ takes'[i] <= now
                /\ Unit * ((n + 1) - i + 1) + tokens' <= burst + rate * (now - takes'[i])
    <2> DEFINE w == Unit * (n - i + 1)
               e == rate * (last - takes[i])
    <2>1. takes'[i] = takes[i] /\ takes[i] \in Nat /\ takes[i] <= last /\ w + tokens <= burst + e
      BY <1>1, <1>8 DEF Ledger
    <2>2. rate * (now - takes[i]) = e + gain
      BY <1>6, <2>1, CreditAdds
    <2>3. Unit * ((n + 1) - i + 1) = w + Unit
      BY <1>4, <1>12, SMT
    <2>4. w \in Int /\ e \in Int
      BY <1>4, <1>6, <1>12, <2>1
    <2>5. tokens' + Unit <= tokens + gain
      BY <1>2, <1>3, <1>4, <1>6, <1>12
    <2>6. w + Unit + tokens' <= burst + (e + gain)
      <3>1. Unit \in Int /\ burst \in Int /\ tokens \in Int /\ tokens' \in Int /\ gain \in Int
        BY <1>4, <1>5, <1>6, <1>12
      <3> HIDE DEF gain, w, e
      <3> QED BY <3>1, <2>1, <2>4, <2>5, Balance
    <2>7. takes'[i] <= now
      BY <2>1, <1>6
    <2> QED
      BY <2>1, <2>2, <2>3, <2>6, <2>7, Zenon
  <1>14. Unit * 1 + tokens' <= burst + rate * (now - now)
    BY <1>2, <1>3, <1>4, <1>6
  <1>15. Ledger'
    <2> SUFFICES ASSUME NEW i \in 1..(n + 1)
                 PROVE  /\ takes'[i] <= now
                        /\ Unit * ((n + 1) - i + 1) + tokens' <= burst + rate * (now - takes'[i])
      BY <1>2, <1>7 DEF Ledger
    <2>1. CASE i \in 1..n
      BY <1>13, <2>1
    <2>2. CASE i = n + 1
      BY <2>2, <1>9, <1>14, <1>12, <1>6
    <2> QED
      BY <2>1, <2>2, <1>12
  <1>16. WindowBound'
    <2> SUFFICES ASSUME NEW i \in 1..(n + 1), NEW j \in 1..(n + 1), i <= j
                 PROVE  Unit * (j - i + 1) <= burst + rate * (takes'[j] - takes'[i])
      BY <1>2, <1>7 DEF WindowBound
    <2>1. CASE j \in 1..n
      BY <2>1, <1>1, <1>8, <1>12 DEF WindowBound
    <2>2. CASE j = n + 1
      <3>1. /\ takes'[i] \in Nat
            /\ Unit * ((n + 1) - i + 1) + tokens' <= burst + rate * (now - takes'[i])
        BY <1>2, <1>7, <1>15, <1>8, <1>9, <1>6 DEF Ledger
      <3>2. Unit * ((n + 1) - i + 1) \in Int /\ rate * (now - takes'[i]) \in Int
        BY <1>4, <1>6, <1>12, <3>1
      <3>3. burst + rate * (now - takes'[i]) \in Int /\ tokens' \in Nat
        BY <3>2, <1>5, <1>6
      <3>4. Unit * ((n + 1) - i + 1) <= burst + rate * (now - takes'[i])
        BY <3>1, <3>2, <3>3, WithoutRest
      <3> QED
        BY <2>2, <3>4, <1>9, Zenon
    <2> QED
      BY <2>1, <2>2, <1>12
  <1>17. NoOversleep'
    <2> SUFFICES ASSUME NEW q \in Caller, pc[q] = "sleep"
                 PROVE  tokens' + rate * (wakeAt[q] - now) <= Unit
      BY <1>1, <1>2 DEF NoOversleep, TypeOK
    <2> DEFINE e == rate * (wakeAt[q] - last)
               f == rate * (wakeAt[q] - now)
    <2>1. wakeAt[q] \in Nat /\ tokens + e <= Unit
      BY <1>1 DEF NoOversleep, TypeOK
    <2>2. e = gain + f
      BY <1>6, <2>1, CreditAdds
    <2>3. e \in Int /\ f \in Int
      BY <1>6, <2>1
    <2>4. tokens' + Unit <= tokens + gain
      BY <1>2, <1>3, <1>4, <1>6, <1>12
    <2>5. tokens' + f <= Unit
      <3>1. Unit \in Int /\ tokens \in Int /\ tokens' \in Int /\ gain \in Int
        BY <1>4, <1>5, <1>6, <1>12
      <3>2. tokens' <= tokens + gain
        BY <2>4, <3>1, <1>4
      <3> HIDE DEF gain, e, f
      <3> QED BY <3>1, <3>2, <2>1, <2>2, <2>3, StillDue
    <2> QED
      BY <2>5
  <1> QED
    BY <1>5, <1>10, <1>11, <1>15, <1>16, <1>17 DEF IInv

\* A take that finds none, and goes to sleep.
LEMMA SleepInv ==
  ASSUME IInv, NEW p \in Caller, Take(p), ~HasToken(Refilled(now))
  PROVE  IInv'
  <1>1. TypeOK /\ tokens <= burst /\ ~Unlimited /\ Ledger /\ WindowBound /\ NoOversleep
        /\ InLoopLimited
    BY DEF IInv, Take, InLoopLimited
  <1>2. /\ tokens' = Refilled(now) /\ last' = now
        /\ pc' = [pc EXCEPT ![p] = "sleep"]
        /\ wakeAt' = [wakeAt EXCEPT ![p] = now + RetryDelay(Refilled(now))]
        /\ UNCHANGED <<rate, burst, now, calls, done, takes>>
    BY DEF Take
  <1>3. /\ Refilled(now) \in Nat /\ Refilled(now) <= burst
        /\ Refilled(now) <= tokens + rate * (now - last)
    BY <1>1, RefillBound
  <1>4. Unit \in Nat \ {0} /\ Unit - Refilled(now) \in Nat
    BY <1>3, ConstantsAssumption DEF HasToken
  <1>6. rate \in Nat \ {0} /\ now \in Nat /\ last \in Nat /\ last <= now /\ burst \in Nat
        /\ tokens \in Nat /\ takes \in Seq(Nat)
    BY <1>1, ConstantsAssumption DEF TypeOK, Unlimited
  <1>7. /\ RetryDelay(Refilled(now)) \in Nat
        /\ rate * RetryDelay(Refilled(now)) <= Unit - Refilled(now)
    BY <1>4, <1>6, DivBound DEF RetryDelay
  <1>8. TypeOK'
    BY <1>1, <1>2, <1>3, <1>7 DEF TypeOK, Places
  <1>9. InLoopLimited' /\ (~Unlimited)'
    BY <1>1, <1>2 DEF InLoopLimited, Unlimited, TypeOK
  <1> DEFINE gain == rate * (now - last)
  <1>10. gain \in Int
    BY <1>6
  <1>11. Ledger'
    <2> SUFFICES ASSUME NEW i \in 1..Len(takes)
                 PROVE  /\ takes[i] <= now
                        /\ Unit * (Len(takes) - i + 1) + tokens' <= burst + rate * (now - takes[i])
      BY <1>2 DEF Ledger
    <2> DEFINE w == Unit * (Len(takes) - i + 1)
               e == rate * (last - takes[i])
    <2>1. takes[i] \in Nat /\ takes[i] <= last /\ w + tokens <= burst + e
      BY <1>1, <1>6 DEF Ledger
    <2>2. rate * (now - takes[i]) = e + gain
      BY <1>6, <2>1, CreditAdds
    <2>3. w \in Int /\ e \in Int
      BY <1>4, <1>6, <2>1
    <2>4. tokens' <= tokens + gain /\ tokens' \in Nat
      BY <1>2, <1>3
    <2>5. w + tokens' <= burst + (e + gain)
      <3>1. burst \in Int /\ tokens \in Int /\ tokens' \in Int /\ gain \in Int
        BY <1>3, <1>2, <1>6, <1>10
      <3> HIDE DEF gain, w, e
      <3> QED BY <3>1, <2>1, <2>3, <2>4, BalanceOfRefill
    <2>6. takes[i] <= now
      BY <2>1, <1>6
    <2> QED
      BY <2>2, <2>5, <2>6, Zenon
  <1>12. WindowBound'
    BY <1>1, <1>2 DEF WindowBound, Unlimited
  <1>13. NoOversleep'
    <2> SUFFICES ASSUME NEW q \in Caller, pc'[q] = "sleep"
                 PROVE  tokens' + rate * (wakeAt'[q] - now) <= Unit
      BY <1>2 DEF NoOversleep
    <2>1. CASE q = p
      <3>1. wakeAt'[q] - now = RetryDelay(Refilled(now))
        BY <1>1, <1>2, <1>6, <1>7, <2>1 DEF TypeOK
      <3>2. rate * RetryDelay(Refilled(now)) \in Int
        BY <1>6, <1>7
      <3> QED
        BY <1>2, <1>3, <1>4, <1>7, <3>1, <3>2
    <2>2. CASE q # p
      <3>1. pc[q] = "sleep" /\ wakeAt'[q] = wakeAt[q] /\ wakeAt[q] \in Nat
        BY <1>1, <1>2, <2>2 DEF TypeOK
      <3> DEFINE e == rate * (wakeAt[q] - last)
                 f == rate * (wakeAt[q] - now)
      <3>2. tokens + e <= Unit
        BY <1>1, <3>1 DEF NoOversleep
      <3>3. e = gain + f
        BY <1>6, <3>1, CreditAdds
      <3>4. e \in Int /\ f \in Int
        BY <1>6, <3>1
      <3>5. tokens' <= tokens + gain /\ tokens' \in Nat
        BY <1>2, <1>3
      <3>6. tokens' + f <= Unit
        <4>1. Unit \in Int /\ tokens \in Int /\ tokens' \in Int /\ gain \in Int
          BY <1>4, <1>6, <1>10, <3>5
        <4> HIDE DEF gain, e, f
        <4> QED BY <4>1, <3>2, <3>3, <3>4, <3>5, StillDue
      <3> QED
        BY <3>1, <3>6
    <2> QED
      BY <2>1, <2>2
  <1> QED
    BY <1>2, <1>3, <1>8, <1>9, <1>11, <1>12, <1>13 DEF IInv

\* Every other step leaves the bucket and the log alone.
LEMMA NextInv == IInv /\ [Next]_vars => IInv'
  <1> SUFFICES ASSUME IInv, [Next]_vars PROVE IInv'
    OBVIOUS
  <1> USE DEF IInv
  <1>1. ASSUME NEW p \in Caller, Call(p) PROVE IInv'
    BY <1>1 DEF Call, bucket, TypeOK, Places, InLoopLimited, Ledger, WindowBound, NoOversleep,
                Unlimited
  <1>2. ASSUME NEW p \in Caller, Take(p) PROVE IInv'
    BY <1>2, GrantInv, SleepInv
  <1>3. ASSUME NEW p \in Caller, TimerFires(p) PROVE IInv'
    BY <1>3 DEF TimerFires, bucket, TypeOK, Places, InLoopLimited, Ledger, WindowBound,
                NoOversleep, Unlimited
  <1>4. ASSUME NEW p \in Caller, CtxDone(p) PROVE IInv'
    BY <1>4 DEF CtxDone, bucket, TypeOK, Places, InLoopLimited, Ledger, WindowBound,
                NoOversleep, Unlimited
  <1>5. ASSUME NEW p \in Caller, Cancel(p) PROVE IInv'
    BY <1>5 DEF Cancel, bucket, TypeOK, InLoopLimited, Ledger, WindowBound, NoOversleep,
                Unlimited
  <1>6. CASE Tick
    BY <1>6 DEF Tick, bucket, TypeOK, InLoopLimited, Ledger, WindowBound, NoOversleep, Unlimited
  <1>7. CASE UNCHANGED vars
    BY <1>7 DEF vars, TypeOK, InLoopLimited, Ledger, WindowBound, NoOversleep, Unlimited
  <1> QED
    BY <1>1, <1>2, <1>3, <1>4, <1>5, <1>6, <1>7 DEF Next

------------------------------------------------------------------------------

LEMMA Invariance == Spec => []IInv
  BY InitInv, NextInv, PTL DEF Spec

\* The variables keep their types; in particular the bucket is never in debt.
THEOREM TypeCorrect == Spec => []TypeOK
  <1>1. IInv => TypeOK
    BY DEF IInv
  <1> QED
    BY <1>1, Invariance, PTL

\* limiter.go:23-25, for any number of goroutines and any rate: the tokens
\* granted in a span of time are at most a burst and what the span has earned.
THEOREM WindowIsBounded == Spec => []WindowBound
  <1>1. IInv => WindowBound
    BY DEF IInv
  <1> QED
    BY <1>1, Invariance, PTL

\* limiter.go:78-79: no timer fires later than the token it waits for is due.
THEOREM NobodyOversleeps == Spec => []NoOversleep
  <1>1. IInv => NoOversleep
    BY DEF IInv
  <1> QED
    BY <1>1, Invariance, PTL

==============================================================================
