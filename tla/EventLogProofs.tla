---------------------------- MODULE EventLogProofs ----------------------------
(***************************************************************************)
(* The event log for any number of producers, engines, events.             *)
(*                                                                         *)
(* That an event is new to one call only, and that a finished one stays    *)
(* finished, both rest on rows never going away; what an engine holds, and *)
(* may mark, has a row (HeldHasRow).  Only the order of a batch rests on    *)
(* how times are written: texts of different seconds sort as the times do. *)
(***************************************************************************)
EXTENDS EventLog, TLAPS

HeldHasRow == \A g \in Engine : \A i \in DOMAIN batch[g] : events[batch[g][i]] # Absent

NewHasRow == \A e \in Event : won[e] # 0 => events[e] # Absent

IInv == TypeOK /\ InsertedOnce /\ NewHasRow /\ HeldHasRow /\ FinishedStaysFinished

USE DEF Zero, Times, Call, EventRow

------------------------------------------------------------------------------

LEMMA InitInv == Init => IInv
  BY EventLogAssumption
  DEF Init, IInv, TypeOK, InsertedOnce, NewHasRow, HeldHasRow, FinishedStaysFinished

\* What the statement leaves is a row; the one that is there, if there is one.
LEMMA InsertedIsRow ==
  ASSUME NEW row \in EventRow \union {Absent}, NEW t \in Times
  PROVE  /\ Inserted(row, NewEvent(t)) \in EventRow
         /\ row # Absent => Inserted(row, NewEvent(t)) = row
  BY DEF Inserted, NewEvent

LEMMA InsertInv ==
  ASSUME IInv, NEW p \in Producer, Insert(p)
  PROVE  IInv'
  <1> USE EventLogAssumption, AbsentAssumption
  <1> DEFINE e == call[p].event
             row == Inserted(events[e], NewEvent(call[p].stamp))
  <1>1. call[p] \in Call /\ e \in Event /\ call[p].stamp \in Times
    BY DEF IInv, TypeOK, Insert
  <1>2. row \in EventRow /\ (events[e] # Absent => row = events[e])
    BY <1>1, InsertedIsRow DEF IInv, TypeOK
  <1> HIDE DEF row
  <1>3. /\ events' = [events EXCEPT ![e] = row]
        /\ won' = (IF row # events[e] THEN [won EXCEPT ![e] = @ + 1] ELSE won) \/ won' = won
        /\ call' = [call EXCEPT ![p] = Absent]
        /\ UNCHANGED <<now, inserts, batch, marked>>
    BY DEF Insert, row
  <1> HIDE DEF e
  <1>4. TypeOK'
    <2>1. events' \in [Event -> EventRow \union {Absent}]
      BY <1>1, <1>2, <1>3 DEF IInv, TypeOK
    <2>2. won' \in [Event -> Nat]
      BY <1>1, <1>3 DEF IInv, TypeOK
    <2>3. call' \in [Producer -> Call \union {Absent}]
      BY <1>3 DEF IInv, TypeOK
    <2> QED
      BY <1>3, <2>1, <2>2, <2>3 DEF IInv, TypeOK
  <1>5. \A f \in Event : events[f] # Absent => events'[f] = events[f]
    BY <1>1, <1>2, <1>3 DEF IInv, TypeOK
  <1>6. events'[e] # Absent
    BY <1>1, <1>2, <1>3 DEF IInv, TypeOK
  <1>7. \A f \in Event :
          won'[f] = won[f] \/ (f = e /\ events[e] = Absent /\ won'[f] = won[e] + 1)
    BY <1>1, <1>2, <1>3 DEF IInv, TypeOK
  <1>8. InsertedOnce' /\ NewHasRow'
    <2> SUFFICES ASSUME NEW f \in Event
                 PROVE  won'[f] <= 1 /\ (won'[f] # 0 => events'[f] # Absent)
      BY DEF InsertedOnce, NewHasRow
    <2>1. won[f] \in Nat /\ won[f] <= 1 /\ (won[f] # 0 => events[f] # Absent)
      BY DEF IInv, TypeOK, InsertedOnce, NewHasRow
    <2>2. CASE won'[f] = won[f]
      BY <1>5, <2>1, <2>2
    <2>3. CASE f = e /\ events[e] = Absent /\ won'[f] = won[e] + 1
      BY <1>6, <2>1, <2>3
    <2> QED
      BY <1>7, <2>2, <2>3
  <1>9. HeldHasRow'
    <2> SUFFICES ASSUME NEW g \in Engine, NEW i \in DOMAIN batch[g]
                 PROVE  events'[batch[g][i]] # Absent
      BY <1>3 DEF HeldHasRow
    <2>1. batch[g][i] \in Event /\ events[batch[g][i]] # Absent
      BY DEF IInv, TypeOK, HeldHasRow
    <2> QED
      BY <1>5, <2>1
  <1>10. FinishedStaysFinished'
    BY <1>3, <1>5 DEF IInv, TypeOK, FinishedStaysFinished, Pending
  <1> QED
    BY <1>4, <1>8, <1>9, <1>10 DEF IInv

LEMMA FetchInv ==
  ASSUME IInv, NEW g \in Engine, PendingEvents(g)
  PROVE  IInv'
  <1> USE EventLogAssumption
  <1>1. PICK n \in 0..Limit : \E b \in [1..n -> Pending] :
          /\ batch' = [batch EXCEPT ![g] = b]
          /\ UNCHANGED <<events, now, call, inserts, won, marked>>
    BY DEF PendingEvents
  <1>2. PICK b \in [1..n -> Pending] :
          /\ batch' = [batch EXCEPT ![g] = b]
          /\ UNCHANGED <<events, now, call, inserts, won, marked>>
    BY <1>1
  <1>3. n \in Nat /\ b \in Seq(Event) /\ DOMAIN b = 1..n /\ \A i \in DOMAIN b : events[b[i]] # Absent
    BY <1>2 DEF Pending
  <1>4. TypeOK'
    BY <1>2, <1>3 DEF IInv, TypeOK
  <1>5. InsertedOnce' /\ NewHasRow' /\ FinishedStaysFinished'
    BY <1>2 DEF IInv, InsertedOnce, NewHasRow, FinishedStaysFinished, Pending
  <1>6. HeldHasRow'
    BY <1>2, <1>3 DEF IInv, TypeOK, HeldHasRow
  <1> QED
    BY <1>4, <1>5, <1>6 DEF IInv

LEMMA MarkInv ==
  ASSUME IInv, NEW g \in Engine, NEW e \in Event, NEW status \in {"processed", "dropped"},
         MarkEventStatus(g, e, status)
  PROVE  IInv'
  <1> USE AbsentAssumption
  <1>1. events[e] # Absent
    BY DEF IInv, HeldHasRow, TypeOK, MarkEventStatus, Range
  <1>2. /\ events' = [events EXCEPT ![e].status = status]
        /\ marked' = marked \union {e}
        /\ UNCHANGED <<now, call, inserts, batch, won>>
    BY <1>1 DEF MarkEventStatus
  <1>3. /\ events'[e] \in EventRow /\ events'[e].status = status
        /\ \A f \in Event \ {e} : events'[f] = events[f]
    BY <1>1, <1>2 DEF IInv, TypeOK
  <1>4. events'[e] # Absent
    BY <1>3
  <1>5. TypeOK'
    BY <1>2, <1>3 DEF IInv, TypeOK
  <1>6. InsertedOnce' /\ NewHasRow'
    BY <1>2, <1>3, <1>4 DEF IInv, InsertedOnce, NewHasRow
  <1>7. HeldHasRow'
    BY <1>2, <1>3, <1>4 DEF IInv, TypeOK, HeldHasRow
  <1>8. FinishedStaysFinished'
    BY <1>2, <1>3, <1>4 DEF IInv, TypeOK, FinishedStaysFinished, Pending
  <1> QED
    BY <1>5, <1>6, <1>7, <1>8 DEF IInv

\* The steps that leave the events, and what is known of them, as they are.
LEMMA OtherInv ==
  ASSUME IInv, UNCHANGED <<events, batch, won, marked>>, TypeOK'
  PROVE  IInv'
  BY DEF IInv, InsertedOnce, NewHasRow, HeldHasRow, FinishedStaysFinished, Pending

LEMMA StepInv ==
  ASSUME IInv, [Next]_vars
  PROVE  IInv'
  <1> USE EventLogAssumption
  <1>1. ASSUME NEW p \in Producer, Insert(p) PROVE IInv'
    BY <1>1, InsertInv
  <1>2. ASSUME NEW p \in Producer, InsertFails(p) PROVE IInv'
    BY <1>2, OtherInv DEF IInv, TypeOK, InsertFails
  <1>3. ASSUME NEW p \in Producer, NEW e \in Event, Begin(p, e) PROVE IInv'
    BY <1>3, OtherInv DEF IInv, TypeOK, Begin
  <1>4. ASSUME NEW g \in Engine, PendingEvents(g) PROVE IInv'
    BY <1>4, FetchInv
  <1>5. ASSUME NEW g \in Engine, NEW e \in Event, NEW status \in {"processed", "dropped"},
               MarkEventStatus(g, e, status)
        PROVE  IInv'
    BY <1>5, MarkInv
  <1>6. CASE Tick
    BY <1>6, OtherInv DEF IInv, TypeOK, Tick
  <1>7. CASE UNCHANGED vars
    BY <1>7, OtherInv DEF IInv, TypeOK, vars
  <1> QED
    BY <1>1, <1>2, <1>3, <1>4, <1>5, <1>6, <1>7 DEF Next

THEOREM Invariance == Spec => []IInv
  <1>1. Init => IInv
    BY InitInv
  <1>2. IInv /\ [Next]_vars => IInv'
    BY StepInv
  <1> QED
    BY <1>1, <1>2, PTL DEF Spec

------------------------------------------------------------------------------
(* The results. *)

\* The tables hold rows, and times within the clock's.
THEOREM TypeCorrect == Spec => []TypeOK
  BY Invariance, PTL DEF IInv

\* No two producers are told that an event is new (events.go:13-16).
THEOREM EventIsNewOnce == Spec => []InsertedOnce
  BY Invariance, PTL DEF IInv

\* The loop guard: what was marked is never pending again (events.go:15-16).
THEOREM GuardHolds == Spec => []FinishedStaysFinished
  BY Invariance, PTL DEF IInv

------------------------------------------------------------------------------
(* The order of a batch. *)

\* A text begins with its second, whatever fraction comes after it.
LEMMA TextBeginsWithSecond ==
  ASSUME NEW t \in Times
  PROVE  1 \in DOMAIN FormatTime(t) /\ FormatTime(t)[1] = t \div 4
  <1> DEFINE fraction == CASE t % 4 = 0 -> <<>>
                           [] t % 4 = 1 -> <<DotChar, Digit(0), Digit(1)>>
                           [] t % 4 = 2 -> <<DotChar, Digit(1)>>
                           [] t % 4 = 3 -> <<DotChar, Digit(1), Digit(1)>>
  <1>1. FormatTime(t) = <<t \div 4>> \o fraction \o <<ZChar>>
    BY EventLogAssumption DEF FormatTime
  <1>2. fraction \in Seq(Nat)
    <2>1. t % 4 \in 0..3
      BY EventLogAssumption
    <2> QED
      BY <2>1 DEF DotChar, Digit
  <1>3. t \div 4 \in Nat /\ ZChar \in Nat
    BY EventLogAssumption DEF ZChar
  <1> HIDE DEF fraction
  <1> QED
    BY <1>1, <1>2, <1>3

LEMMA EarlierSecondBefore ==
  ASSUME NEW t \in Times, NEW u \in Times, t \div 4 < u \div 4
  PROVE  TextBefore(FormatTime(t), FormatTime(u))
  <1>1. \A j \in 1..(1 - 1) : j \in DOMAIN FormatTime(t) /\ FormatTime(t)[j] = FormatTime(u)[j]
    OBVIOUS
  <1>2. 1 \in DOMAIN FormatTime(u) /\ FormatTime(t)[1] < FormatTime(u)[1]
    BY TextBeginsWithSecond
  <1> QED
    BY <1>1, <1>2 DEF TextBefore

\* So an event that does not sort before another is not of an earlier second.
LEMMA NotBeforeNotEarlier ==
  ASSUME TypeOK, NEW e \in Pending, NEW f \in Pending, ~Before(e, f)
  PROVE  SecondOf(f) <= SecondOf(e)
  <1>1. events[e].created \in Times /\ events[f].created \in Times
    BY AbsentAssumption DEF TypeOK, Pending
  <1>2. ~(SecondOf(e) < SecondOf(f))
    BY <1>1, EarlierSecondBefore DEF Before, SecondOf
  <1>3. SecondOf(e) \in Int /\ SecondOf(f) \in Int
    BY <1>1, EventLogAssumption DEF SecondOf
  <1> QED
    BY <1>2, <1>3

LEMMA FetchOldestFirst ==
  ASSUME TypeOK, NEW g \in Engine, PendingEvents(g)
  PROVE  LET b == batch'[g] IN
         /\ \A i, j \in DOMAIN b : i < j => SecondOf(b[i]) <= SecondOf(b[j])
         /\ \A e \in Pending \ Range(b) :
              Len(b) = Limit /\ \A i \in DOMAIN b : SecondOf(b[i]) <= SecondOf(e)
  <1> USE EventLogAssumption
  <1>1. PICK n \in 0..Limit : \E b \in [1..n -> Pending] :
          /\ Len(b) < Limit => Range(b) = Pending
          /\ \A i, j \in DOMAIN b : Before(b[i], b[j]) => i < j
          /\ \A i \in DOMAIN b : \A e \in Pending \ Range(b) : ~Before(e, b[i])
          /\ batch' = [batch EXCEPT ![g] = b]
    BY DEF PendingEvents
  <1>2. PICK b \in [1..n -> Pending] :
          /\ Len(b) < Limit => Range(b) = Pending
          /\ \A i, j \in DOMAIN b : Before(b[i], b[j]) => i < j
          /\ \A i \in DOMAIN b : \A e \in Pending \ Range(b) : ~Before(e, b[i])
          /\ batch' = [batch EXCEPT ![g] = b]
    BY <1>1
  <1>3. batch'[g] = b /\ Len(b) = n /\ n <= Limit
    BY <1>2 DEF TypeOK
  <1>4. ASSUME NEW i \in DOMAIN b, NEW j \in DOMAIN b, i < j
        PROVE  SecondOf(b[i]) <= SecondOf(b[j])
    <2>1. ~Before(b[j], b[i])
      BY <1>2, <1>4
    <2> QED
      BY <2>1, NotBeforeNotEarlier
  <1>5. ASSUME NEW e \in Pending \ Range(b)
        PROVE  Len(b) = Limit /\ \A i \in DOMAIN b : SecondOf(b[i]) <= SecondOf(e)
    <2>1. Len(b) = Limit
      BY <1>2, <1>3
    <2>2. \A i \in DOMAIN b : SecondOf(b[i]) <= SecondOf(e)
      BY <1>2, NotBeforeNotEarlier
    <2> QED
      BY <2>1, <2>2
  <1> QED
    BY <1>3, <1>4, <1>5

\* A batch goes from older to younger and leaves nothing of an earlier second
\* behind, and only the limit leaves any (events.go:47-48).
THEOREM OldestFirst == Spec => PendingOldestFirst
  <1> DEFINE Ordered(g) ==
        LET b == batch'[g] IN
        /\ \A i, j \in DOMAIN b : i < j => SecondOf(b[i]) <= SecondOf(b[j])
        /\ \A e \in Pending \ Range(b) :
             Len(b) = Limit /\ \A i \in DOMAIN b : SecondOf(b[i]) <= SecondOf(e)
  <1>1. ASSUME IInv, [Next]_vars, NEW g \in Engine, batch'[g] # batch[g]
        PROVE  Ordered(g)
    <2>1. PICK h \in Engine : PendingEvents(h)
      BY <1>1 DEF Next, Insert, InsertFails, Begin, MarkEventStatus, Tick, vars
    <2>2. h = g
      BY <1>1, <2>1 DEF IInv, TypeOK, PendingEvents
    <2> QED
      BY <1>1, <2>1, <2>2, FetchOldestFirst DEF IInv
  <1>2. IInv /\ [Next]_vars => [\A g \in Engine : batch'[g] # batch[g] => Ordered(g)]_vars
    BY <1>1
  <1> QED
    BY <1>2, Invariance, PTL DEF Spec, PendingOldestFirst
==============================================================================
