------------------------------- MODULE EventLog -------------------------------
(***************************************************************************)
(* internal/store/events.go: the event log that is the pivot engine's loop *)
(* guard.  (The module runs of that file are upserts of rows that one      *)
(* caller owns, and left out.)                                             *)
(*                                                                         *)
(* Nothing in the repository calls these yet: producers insert events, an  *)
(* engine fetches those that are pending and marks what it was handed      *)
(* "processed" or "dropped", as the comments have it.  InsertEvent reads   *)
(* the clock, then executes one statement, and other statements may come   *)
(* in between; the other functions are one statement each.  A statement    *)
(* may fail, and its answer may be lost after it has taken effect (the ctx *)
(* is cancelled, the process killed).                                      *)
(*                                                                         *)
(* Time is counted in quarters of a second.  A stored time is a text:      *)
(* formatTime leaves out the zeros at the end of a fraction, and with them *)
(* the dot, and SQLite compares texts.                                     *)
(***************************************************************************)
EXTENDS Integers, Sequences, FiniteSets, Functions

CONSTANTS Producer, Engine, \* callers
          Event,            \* ids, each of a type and an asset
          Absent,           \* no row, no call
          Limit,            \* of PendingEvents
          Start, Horizon,   \* bounds: where the clock starts and stops
          MaxInserts        \* bound: calls of InsertEvent

Zero == 0                   \* time.Time{}
Times == Start..Horizon

ASSUME EventLogAssumption ==
  /\ Start \in Nat \ {Zero} /\ Horizon \in Nat /\ Start <= Horizon
  /\ Limit \in Nat /\ MaxInserts \in Nat

EventRow == [status : {"pending", "processed", "dropped"}, created : Times]

\* A call of InsertEvent that has read the clock.
Call == [event : Event, stamp : Times]

ASSUME AbsentAssumption == Absent \notin EventRow \union Call

VARIABLES events,             \* the table
          now,
          call, inserts,      \* per producer: its call of InsertEvent; all calls begun
          batch,              \* per engine: what PendingEvents gave it
          won,                \* history: per event, the calls told that it is new
          marked              \* history: events that were marked

vars == <<events, now, call, inserts, batch, won, marked>>

------------------------------------------------------------------------------
(* Times as texts: characters are numbers that sort as they do. *)

DotChar == 0
Digit(d) == d + 1           \* of base two: a quarter second is .01
ZChar == 3

FormatTime(t) ==
  LET fraction == CASE t % 4 = 0 -> <<>>
                    [] t % 4 = 1 -> <<DotChar, Digit(0), Digit(1)>>
                    [] t % 4 = 2 -> <<DotChar, Digit(1)>>
                    [] t % 4 = 3 -> <<DotChar, Digit(1), Digit(1)>>
  IN  IF t = Zero THEN <<>> ELSE <<t \div 4>> \o fraction \o <<ZChar>>

TextBefore(a, b) ==
  \E i \in DOMAIN b : /\ \A j \in 1..(i - 1) : j \in DOMAIN a /\ a[j] = b[j]
                      /\ i \in DOMAIN a => a[i] < b[i]

------------------------------------------------------------------------------
(* The code. *)

Init ==
  /\ events = [e \in Event |-> Absent]
  /\ now = Start
  /\ call = [p \in Producer |-> Absent]
  /\ inserts = 0
  /\ batch = [g \in Engine |-> <<>>]
  /\ won = [e \in Event |-> 0]
  /\ marked = {}

\* InsertEvent, up to its statement.
Begin(p, e) ==
  /\ call[p] = Absent /\ inserts < MaxInserts
  /\ inserts' = inserts + 1
  /\ call' = [call EXCEPT ![p] = [event |-> e, stamp |-> now]]
  /\ UNCHANGED <<events, now, batch, won, marked>>

\* Mutant: the status is stored as the caller left it.
AsGiven(t) == [status |-> "", created |-> t]

NewEvent(t) == [status |-> "pending", created |-> t]

\* Mutant: INSERT OR REPLACE.
Replacing(row, new) == new

\* ON CONFLICT(project_id, id) DO NOTHING.
Inserted(row, new) == IF row = Absent THEN new ELSE row

\* The statement; a row counts as affected if it has become another.
Insert(p) ==
  LET e == call[p].event
      row == Inserted(events[e], NewEvent(call[p].stamp))
  IN
  /\ call[p] # Absent
  /\ events' = [events EXCEPT ![e] = row]
  /\ \/ won' = IF row # events[e] THEN [won EXCEPT ![e] = @ + 1] ELSE won  \* RowsAffected
     \/ UNCHANGED won                                       \* the answer is lost
  /\ call' = [call EXCEPT ![p] = Absent]
  /\ UNCHANGED <<now, inserts, batch, marked>>

InsertFails(p) ==
  /\ call[p] # Absent
  /\ call' = [call EXCEPT ![p] = Absent]
  /\ UNCHANGED <<events, now, inserts, batch, won, marked>>

Pending == {e \in Event : events[e] # Absent /\ events[e].status = "pending"}

\* Mutant: no ORDER BY.
Unordered(e, f) == FALSE

\* ORDER BY created_at ASC.
Before(e, f) == TextBefore(FormatTime(events[e].created), FormatTime(events[f].created))

\* Rows of the same time come in any order.
PendingEvents(g) ==
  /\ \E b \in UNION {[1..n -> Pending] : n \in 0..Limit} :
       /\ IsInjective(b)
       /\ Len(b) < Limit => Range(b) = Pending
       /\ \A i, j \in DOMAIN b : Before(b[i], b[j]) => i < j
       /\ \A i \in DOMAIN b : \A e \in Pending \ Range(b) : ~Before(e, b[i])
       /\ batch' = [batch EXCEPT ![g] = b]
  /\ UNCHANGED <<events, now, call, inserts, won, marked>>

MarkEventStatus(g, e, status) ==
  /\ e \in Range(batch[g])
  /\ events' = IF events[e] = Absent THEN events ELSE [events EXCEPT ![e].status = status]
  /\ marked' = marked \union {e}
  /\ UNCHANGED <<now, call, inserts, batch, won>>

Tick ==
  /\ now < Horizon /\ now' = now + 1
  /\ UNCHANGED <<events, call, inserts, batch, won, marked>>

Next ==
  \/ \E p \in Producer : Insert(p) \/ InsertFails(p) \/ \E e \in Event : Begin(p, e)
  \/ \E g \in Engine :
       \/ PendingEvents(g)
       \/ \E e \in Event, status \in {"processed", "dropped"} : MarkEventStatus(g, e, status)
  \/ Tick

Spec == Init /\ [][Next]_vars

------------------------------------------------------------------------------
(* Properties. *)

TypeOK ==
  /\ events \in [Event -> EventRow \union {Absent}]
  /\ now \in Times
  /\ call \in [Producer -> Call \union {Absent}]
  /\ inserts \in 0..MaxInserts
  /\ batch \in [Engine -> Seq(Event)]
  /\ won \in [Event -> Nat]
  /\ marked \in SUBSET Event

\* However producers race, and whatever answers are lost, no two are told that an
\* event is new, and when one was the log has the event (events.go:13-16).
InsertedOnce == \A e \in Event : won[e] <= 1 /\ (won[e] = 1 => events[e] # Absent)

\* The loop guard: an event that was marked is never pending again, though it be
\* discovered again and marked twice (events.go:15-16).
FinishedStaysFinished ==
  \A e \in marked : events[e] # Absent /\ e \notin Pending

\* A batch goes from older to younger and leaves no event waiting behind one of a later
\* second, and only the limit leaves any (events.go:47-48).  Within a second
\* the texts do not sort as the times do, and the order is another.
SecondOf(e) == events[e].created \div 4

PendingOldestFirst ==
  [][\A g \in Engine : batch'[g] # batch[g] =>
       LET b == batch'[g] IN
       /\ \A i, j \in DOMAIN b : i < j => SecondOf(b[i]) <= SecondOf(b[j])
       /\ \A e \in Pending \ Range(b) :
            Len(b) = Limit /\ \A i \in DOMAIN b : SecondOf(b[i]) <= SecondOf(e)]_vars
==============================================================================
